---------------------------- MODULE Spec2Model ----------------------------
(***************************************************************************)
(* A model of ArabicPoetryAnalyzer (src/main.py): the grapheme layer, the  *)
(* four-pass orthographic normaliser, the skeleton extractor, the meter    *)
(* matcher, the foot segmenter, the ishbaa3 search, the rhyme analyser,    *)
(* the free-verse engine and the wizard validator.                         *)
(*                                                                         *)
(* A Python str is a sequence of symbols, one symbol per code point.  The  *)
(* Arabic code points are written in an ASCII transliteration:             *)
(*                                                                         *)
(*   letters  A alef       O alef+hamza above   I alef+hamza below         *)
(*            M alef madda c hamza              e yeh+hamza                *)
(*            W waw+hamza  Y alef maqsura       b beh     t teh            *)
(*            p teh marbuta v theh   j jeem     H hah     x khah           *)
(*            d dal        V thal    r reh      z zain    G sheen          *)
(*            s seen       S sad     D dad      T tah     Z zah            *)
(*            E ain        g ghain   f feh      q qaf     k kaf            *)
(*            l lam        m meem    n noon     h heh     w waw   y yeh    *)
(*   harakat  ~ shadda     a fatha   u damma    i kasra                    *)
(*            F fathatan   N dammatan K kasratan o sukun                   *)
(*   others   "#" the word boundary, " " a space, "@" any code point that  *)
(*            is in neither inventory and is no punctuation mark,          *)
(*            "aqm" the Arabic question mark, "acm" the Arabic comma,      *)
(*            "bsl" a backslash, "dqt" a double quote,                     *)
(*            "Le" "Lm" "Lp" "Lt" "Ly" the Latin letters of 'empty'.       *)
(*                                                                         *)
(* The Arabic texts the rhyme analyser returns as a rhyme's type and as    *)
(* error messages are written as ASCII strings that name them.             *)
(*                                                                         *)
(* The list returned by _str_to_chars is a sequence of units, each unit a  *)
(* str of one or two symbols.                                              *)
(***************************************************************************)
EXTENDS Integers, Sequences, FiniteSets, TLC

(***************************************************************************)
(* Class attributes.                                                       *)
(***************************************************************************)
ALPHABET ==
    {"A", "O", "I", "M", "c", "e", "W", "Y", "b", "t", "p", "v", "j", "H", "x",
     "d", "V", "r", "z", "G", "s", "S", "D", "T", "Z", "E", "g", "f", "q", "k",
     "l", "m", "n", "h", "w", "y", "#"}

HARAKAT == {"~", "a", "u", "i", "F", "N", "K", "o"}

punctuations == {"aqm", "?", "/", "bsl", "!", ":", "-", "dqt", ")", "(", ",", "acm"}

(***************************************************************************)
(* Python str and list primitives.                                         *)
(***************************************************************************)
Max(a, b) == IF a >= b THEN a ELSE b

Min(a, b) == IF a <= b THEN a ELSE b

\* s[i:j] with 0-based i and j, 0 <= i: the slice is cut at the end of s.
Slice(s, i, j) == SubSeq(s, i + 1, Min(j, Len(s)))

\* ''.join(units)
RECURSIVE Join(_)
Join(units) ==
    IF units = <<>> THEN <<>> ELSE Head(units) \o Join(Tail(units))

\* x in inventory, for a unit x (a str) and a list of one-symbol strings.
UnitIn(x, inventory) == Len(x) = 1 /\ x[1] \in inventory

\* text.replace(c, d) for one symbol c and a str d.
ReplaceSym(text, c, d) ==
    Join([i \in 1..Len(text) |-> IF text[i] = c THEN d ELSE <<text[i]>>])

\* A strip that drops nothing.
WithoutNothing(text, drop) == text

\* The symbols of text that are not in drop, in order.
RECURSIVE Without(_, _)
Without(text, drop) ==
    IF text = <<>> THEN <<>>
    ELSE IF Head(text) \in drop THEN Without(Tail(text), drop)
         ELSE <<Head(text)>> \o Without(Tail(text), drop)

\* re.sub(c+, d, text) for one symbol c and a str d: each maximal run of c
\* becomes one d.
RECURSIVE CollapseRuns(_, _, _)
CollapseRuns(text, c, d) ==
    IF text = <<>> THEN <<>>
    ELSE IF Head(text) # c THEN <<Head(text)>> \o CollapseRuns(Tail(text), c, d)
         ELSE IF Len(text) > 1 /\ text[2] = c THEN CollapseRuns(Tail(text), c, d)
              ELSE d \o CollapseRuns(Tail(text), c, d)

(***************************************************************************)
(* _str_to_chars: the loop of lines 107-118 from 0-based position i.       *)
(***************************************************************************)
RECURSIVE StrToCharsFrom(_, _)
StrToCharsFrom(text, i) ==
    IF ~(i < Len(text)) THEN <<>>
    ELSE IF i < Len(text) - 1 /\ text[i + 1] # "#" /\ text[i + 2] # "#"
         THEN <<SubSeq(text, i + 1, i + 2)>> \o StrToCharsFrom(text, i + 2)
         ELSE IF text[i + 1] = "#"
              THEN << <<"#">> >> \o StrToCharsFrom(text, i + 1)
              ELSE << <<text[i + 1]>> >> \o StrToCharsFrom(text, i + 1)

\* A splitter that makes one unit of every code point.
code_points(text) ==
    [k \in 1..Len(text) |-> IF text[k] = " " THEN <<"#">> ELSE <<text[k]>>]

str_to_chars(text) == StrToCharsFrom(ReplaceSym(text, " ", <<"#">>), 0)

(***************************************************************************)
(* _clean_str                                                              *)
(***************************************************************************)
\* lines 123-124
CleanLead(text) ==
    IF text # <<>> /\ text[1] = "#" THEN text ELSE <<"#">> \o text

\* lines 127-133
CleanMarks(text) ==
    Without(CollapseRuns(CollapseRuns(CleanLead(text), " ", <<"#">>), "#", <<"#">>),
            punctuations)

\* lines 135-140: the units that are in one of the two inventories.
RECURSIVE KeepInventory(_)
KeepInventory(units) ==
    IF units = <<>> THEN <<>>
    ELSE IF UnitIn(Head(units), ALPHABET) \/ UnitIn(Head(units), HARAKAT)
         THEN <<Head(units)>> \o KeepInventory(Tail(units))
         ELSE KeepInventory(Tail(units))

clean_str(text) ==
    LET marked == CleanMarks(text)
        kept == KeepInventory(str_to_chars(marked))
    IN  Join(IF marked # <<>> /\ marked[Len(marked)] = "#"
             THEN kept
             ELSE Append(kept, <<"#">>))

(***************************************************************************)
(* re.sub over the patterns the source uses.  A pattern is a list of       *)
(* branches tried in order (a top-level alternation, expanded); a branch   *)
(* is a list of items; an item matches symbols of the set s: exactly one   *)
(* (many = FALSE) or lo and more, greedily and with backtracking           *)
(* (many = TRUE).  g is the capturing group the item belongs to (0: none). *)
(* In a replacement, the symbols "1", "2", "3" stand for \1, \2, \3.       *)
(***************************************************************************)
One(set) == [s |-> set, lo |-> 1, many |-> FALSE, g |-> 0]

OneG(set, grp) == [s |-> set, lo |-> 1, many |-> FALSE, g |-> grp]

Star(set) == [s |-> set, lo |-> 0, many |-> TRUE, g |-> 0]

StarG(set, grp) == [s |-> set, lo |-> 0, many |-> TRUE, g |-> grp]

AtLeastG(set, n, grp) == [s |-> set, lo |-> n, many |-> TRUE, g |-> grp]

\* A literal str as items.
Lit(str) == [i \in 1..Len(str) |-> One({str[i]})]

LitG(str, grp) == [i \in 1..Len(str) |-> OneG({str[i]}, grp)]

Rule(pattern, repl) == [p |-> pattern, r |-> repl]

\* The number of consecutive symbols of set in s from 1-based position i.
RECURSIVE RunLen(_, _, _)
RunLen(s, i, set) ==
    IF i <= Len(s) /\ s[i] \in set THEN 1 + RunLen(s, i + 1, set) ELSE 0

NoMatch == <<0>>

\* The items k.. of a branch against s from position i: the end (the position
\* after the last symbol matched) of each item, or NoMatch.
RECURSIVE MatchItems(_, _, _, _)
RECURSIVE TryCount(_, _, _, _, _)
MatchItems(items, k, s, i) ==
    IF k > Len(items) THEN <<>>
    ELSE LET it == items[k]
             top == IF it.many THEN RunLen(s, i, it.s)
                    ELSE IF i <= Len(s) /\ s[i] \in it.s THEN 1 ELSE 0
         IN  TryCount(items, k, s, i, top)

TryCount(items, k, s, i, c) ==
    IF c < items[k].lo THEN NoMatch
    ELSE LET rest == MatchItems(items, k + 1, s, i + c)
         IN  IF rest = NoMatch THEN TryCount(items, k, s, i, c - 1)
             ELSE <<i + c>> \o rest

\* The first branch from index b on that matches s at position i:
\* [b: its index (0: none), ends: the ends of its items].
RECURSIVE MatchAt(_, _, _, _)
MatchAt(branches, b, s, i) ==
    IF b > Len(branches) THEN [b |-> 0, ends |-> <<>>]
    ELSE LET ends == MatchItems(branches[b], 1, s, i)
         IN  IF ends = NoMatch THEN MatchAt(branches, b + 1, s, i)
             ELSE [b |-> b, ends |-> ends]

\* The text captured by group grp in a match of items at position i.
Captured(items, ends, s, i, grp) ==
    Join([k \in 1..Len(items) |->
            IF items[k].g = grp
            THEN SubSeq(s, IF k = 1 THEN i ELSE ends[k - 1], ends[k] - 1)
            ELSE <<>>])

Expand(repl, items, ends, s, i) ==
    Join([k \in 1..Len(repl) |->
            CASE repl[k] = "1" -> Captured(items, ends, s, i, 1)
              [] repl[k] = "2" -> Captured(items, ends, s, i, 2)
              [] repl[k] = "3" -> Captured(items, ends, s, i, 3)
              [] OTHER -> <<repl[k]>>])

\* re.sub(rule.p, rule.r, s): the leftmost matches, left to right, without
\* overlap (no pattern of the source matches the empty string).
RECURSIVE SubFrom(_, _, _)
SubFrom(rule, s, i) ==
    IF i > Len(s) THEN <<>>
    ELSE LET m == MatchAt(rule.p, 1, s, i)
         IN  IF m.b = 0 THEN <<s[i]>> \o SubFrom(rule, s, i + 1)
             ELSE Expand(rule.r, rule.p[m.b], m.ends, s, i)
                  \o SubFrom(rule, s, m.ends[Len(m.ends)])

Sub(rule, s) == SubFrom(rule, s, 1)

\* for pattern, replacement in zip(patterns, replacements):
\*     text = re.sub(pattern, replacement, text)
RECURSIVE ApplyRules(_, _, _)
ApplyRules(rules, k, s) ==
    IF k > Len(rules) THEN s
    ELSE LET out == Sub(rules[k], s)
         IN  IF out = <<>> THEN out ELSE ApplyRules(rules, k + 1, out)

(***************************************************************************)
(* _handle_special_cases: the rules of lines 154-340, in order.            *)
(***************************************************************************)
vowels_sukun == {"a", "u", "i", "o"}

vowels == {"a", "u", "i"}

special_cases_rules ==
    <<
        Rule(<< Lit(<<"w">>) \o <<Star(vowels_sukun)>> \o Lit(<<"A", "#">>) >>,
             <<"w", "o", "#">>),
        Rule(<< Lit(<<"#", "E", "m", "r", "K", "w", "#">>) >>,
             <<"#", "E", "m", "o", "r", "K", "#">>),
        Rule(<< Lit(<<"#", "E", "m", "r", "w", "K", "#">>) >>,
             <<"#", "E", "m", "o", "r", "K", "#">>),
        Rule(<< Lit(<<"#", "E", "m", "r", "F", "w", "#">>) >>,
             <<"#", "E", "m", "o", "r", "F", "#">>),
        Rule(<< Lit(<<"#", "E", "m", "r", "w", "F", "#">>) >>,
             <<"#", "E", "m", "o", "r", "F", "#">>),
        Rule(<< Lit(<<"#", "E", "m", "r", "N", "w", "#">>) >>,
             <<"#", "E", "m", "o", "r", "N", "#">>),
        Rule(<< Lit(<<"#", "E", "m", "r", "w", "N", "#">>) >>,
             <<"#", "E", "m", "o", "r", "N", "#">>),
        Rule(<< Lit(<<"#", "E", "m", "r", "w", "#">>) >>,
             <<"#", "E", "m", "o", "r", "#">>),
        Rule(<< Lit(<<"M">>) >>,
             <<"O", "A">>),
        Rule(<< Lit(<<"Y", "#", "A", "l", "l", "h", "#">>) >>,
             <<"l", "~", "A", "h", "#">>),
        Rule(<< Lit(<<"t", "A", "l", "l", "h", "#">>) >>,
             <<"t", "l", "~", "A", "h", "#">>),
        Rule(<< Lit(<<"A", "#", "A", "l", "l", "h", "#">>) >>,
             <<"l", "~", "A", "h", "#">>),
        Rule(<< Lit(<<"A", "l", "l", "h", "u", "#">>) >>,
             <<"A", "l", "o", "l", "A", "h", "u", "#">>),
        Rule(<< Lit(<<"A", "l", "l", "h", "a", "#">>) >>,
             <<"A", "l", "o", "l", "A", "h", "a", "#">>),
        Rule(<< Lit(<<"A", "l", "l", "h", "i", "#">>) >>,
             <<"A", "l", "o", "l", "A", "h", "i", "#">>),
        Rule(<< Lit(<<"A", "l", "l", "h", "#">>) >>,
             <<"A", "l", "o", "l", "A", "h", "#">>),
        Rule(<< Lit(<<"l", "l", "h", "i", "#">>) >>,
             <<"l", "l", "o", "l", "A", "h", "i", "#">>),
        Rule(<< Lit(<<"l", "l", "h", "#">>) >>,
             <<"l", "l", "o", "l", "A", "h", "#">>),
        Rule(<< Lit(<<"#", "A", "l", "l">>) \o <<Star({"a", "~"})>>
                    \o Lit(<<"h", "m">>) \o <<StarG({"a", "~"}, 1)>>
                    \o Lit(<<"#">>) >>,
             <<"#", "A", "l", "o", "l", "A", "h", "m", "1", "#">>),
        Rule(<< Lit(<<"#", "A", "l", "I", "l", "h">>)
                    \o <<StarG(vowels_sukun, 1)>> \o Lit(<<"#">>) >>,
             <<"#", "A", "l", "I", "l", "A", "h", "1", "#">>),
        Rule(<< Lit(<<"#", "l", "l">>) \o <<Star({"o"})>>
                    \o Lit(<<"I", "l", "h">>) \o <<StarG(vowels_sukun, 1)>>
                    \o Lit(<<"#">>) >>,
             <<"l", "l", "o", "I", "l", "A", "h", "1", "#">>),
        Rule(<< Lit(<<"#", "I", "l", "h">>) \o <<StarG(vowels_sukun, 1)>>
                    \o <<OneG({"y", "h", "m", "n", "A"}, 2)>>
                    \o <<StarG(vowels_sukun, 3)>> \o Lit(<<"#">>) >>,
             <<"#", "I", "l", "A", "h", "1", "2", "3", "#">>),
        Rule(<< Lit(<<"A", "l", "r">>) \o <<Star({"a", "~"})>>
                    \o Lit(<<"H", "m", "n">>) \o <<StarG(vowels_sukun, 1)>>
                    \o Lit(<<"#">>) >>,
             <<"A", "l", "r", "a", "~", "H", "o", "m", "A", "n", "1", "#">>),
        Rule(<< Lit(<<"l", "l", "r">>) \o <<Star({"a", "~"})>>
                    \o Lit(<<"H", "m", "n">>) \o <<StarG(vowels_sukun, 1)>>
                    \o Lit(<<"#">>) >>,
             <<"l", "i", "r", "a", "~", "H", "o", "m", "A", "n", "1", "#">>),
        Rule(<< Lit(<<"#">>) \o <<StarG({"f", "l", "k", "b"}, 1)>> \o Lit(<<"h">>)
                    \o <<Star({"a"})>> \o Lit(<<"V">>) \o <<Star({"a"})>>
                    \o Lit(<<"A">>) \o <<Star({"o"})>> \o Lit(<<"#">>) >>,
             <<"#", "1", "h", "a", "A", "V", "a", "A", "#">>),
        Rule(<< Lit(<<"#">>) \o <<StarG({"f", "l", "k", "b"}, 1)>> \o Lit(<<"h">>)
                    \o <<Star({"a"})>> \o Lit(<<"V">>) \o <<Star({"i"})>>
                    \o Lit(<<"h">>) \o <<StarG(vowels, 2)>> \o Lit(<<"#">>) >>,
             <<"#", "1", "h", "a", "A", "V", "i", "h", "2", "#">>),
        Rule(<< Lit(<<"#">>) \o <<StarG({"f", "l", "k", "b"}, 1)>> \o Lit(<<"h">>)
                    \o <<Star(vowels)>> \o Lit(<<"W">>) \o <<Star(vowels)>>
                    \o Lit(<<"l">>) \o <<Star({"a", "i"})>> \o Lit(<<"A">>)
                    \o <<Star({"o"})>> \o Lit(<<"c">>)
                    \o <<StarG(vowels_sukun, 2)>> \o Lit(<<"#">>) >>,
             <<"#", "1", "h", "a", "A", "W", "u", "l", "a", "A", "c", "2", "#">>),
        Rule(<< Lit(<<"#">>) \o <<StarG({"f", "l", "k", "b"}, 1)>> \o Lit(<<"V">>)
                    \o <<Star(vowels)>> \o Lit(<<"l">>) \o <<Star(vowels)>>
                    \o Lit(<<"k">>) \o <<StarG({"a", "i"}, 2)>> \o Lit(<<"#">>) >>,
             <<"#", "1", "V", "a", "A", "l", "i", "k", "2", "#">>),
        Rule(<< Lit(<<"#">>) \o <<StarG({"f", "l", "k", "b"}, 1)>> \o Lit(<<"h">>)
                    \o <<Star(vowels)>> \o Lit(<<"V">>) \o <<Star(vowels)>>
                    \o Lit(<<"y">>) \o <<StarG({"a", "i"}, 2)>> \o Lit(<<"#">>) >>,
             <<"#", "1", "h", "a", "A", "V", "i", "y", "2", "#">>),
        Rule(<< Lit(<<"#">>) \o <<StarG({"f", "l", "k", "b"}, 1)>> \o Lit(<<"h">>)
                    \o <<Star(vowels)>> \o Lit(<<"V">>) \o <<Star({"a", "i"})>>
                    \o Lit(<<"A">>) \o <<Star({"o"})>> \o Lit(<<"n">>)
                    \o <<StarG(vowels_sukun, 2)>> \o Lit(<<"#">>) >>,
             <<"#", "1", "h", "a", "A", "V", "a", "A", "n", "2", "#">>),
        Rule(<< Lit(<<"#">>) \o <<StarG({"f", "l", "k", "b"}, 1)>> \o Lit(<<"h">>)
                    \o <<Star(vowels)>> \o Lit(<<"V">>) \o <<Star({"a", "i"})>>
                    \o Lit(<<"y">>) \o <<Star({"o"})>> \o Lit(<<"n">>)
                    \o <<StarG(vowels_sukun, 2)>> \o Lit(<<"#">>) >>,
             <<"#", "1", "h", "a", "A", "V", "a", "y", "o", "n", "2", "#">>),
        Rule(<< Lit(<<"#">>) \o <<StarG({"f", "l", "k", "b"}, 1)>> \o Lit(<<"h">>)
                    \o <<Star(vowels)>> \o Lit(<<"h">>) \o <<Star({"a", "i"})>>
                    \o Lit(<<"n">>) \o <<Star({"o"})>> \o Lit(<<"A">>)
                    \o <<StarG(vowels_sukun, 2)>> \o Lit(<<"#">>) >>,
             <<"#", "1", "h", "a", "A", "h", "u", "n", "a", "A", "#">>),
        Rule(<< Lit(<<"#">>) \o <<StarG({"f", "l", "k", "b"}, 1)>> \o Lit(<<"h">>)
                    \o <<Star(vowels)>> \o Lit(<<"h">>) \o <<Star({"a", "i"})>>
                    \o Lit(<<"n">>) \o <<Star({"o"})>> \o Lit(<<"A">>)
                    \o <<Star({"o"})>> \o Lit(<<"k">>)
                    \o <<StarG(vowels_sukun, 2)>> \o Lit(<<"#">>) >>,
             <<"#", "1", "h", "a", "A", "h", "u", "n", "a", "A", "k", "2", "#">>),
        Rule(<< Lit(<<"#">>) \o <<StarG({"f", "l", "k", "b"}, 1)>> \o Lit(<<"h">>)
                    \o <<Star(vowels)>> \o Lit(<<"k">>) \o <<Star({"a", "i"})>>
                    \o Lit(<<"V">>) \o <<Star({"o"})>> \o Lit(<<"A">>)
                    \o <<StarG(vowels_sukun, 2)>> \o Lit(<<"#">>) >>,
             <<"#", "1", "h", "a", "A", "k", "a", "V", "a", "A", "#">>),
        Rule(<< Lit(<<"#", "l">>) \o <<Star(vowels)>> \o Lit(<<"k">>)
                    \o <<Star({"a", "i"})>> \o Lit(<<"n">>) \o <<StarG({"o"}, 1)>>
                    \o Lit(<<"#">>) >>,
             <<"#", "l", "a", "A", "o", "k", "i", "n", "o", "#">>),
        Rule(<< Lit(<<"#", "l">>) \o <<Star(vowels)>> \o Lit(<<"k">>)
                    \o <<Star({"a", "i"})>> \o Lit(<<"n">>) \o <<StarG({"~"}, 1)>>
                    \o Lit(<<"#">>) >>,
             <<"#", "l", "a", "A", "o", "k", "i", "n", "o", "n", "a", "#">>),
        Rule(<< Lit(<<"#", "A">>) \o <<Star(vowels)>> \o Lit(<<"l">>)
                    \o <<Star(vowels)>> \o Lit(<<"V">>) \o <<Star(vowels)>>
                    \o Lit(<<"y">>) \o <<StarG(vowels_sukun, 1)>> \o Lit(<<"#">>) >>,
             <<"#", "A", "l", "l", "~", "V", "i", "y", "o", "#">>),
        Rule(<< Lit(<<"#">>) \o <<StarG({"f", "b", "k"}, 1)>> \o Lit(<<"A">>)
                    \o <<Star(vowels)>> \o Lit(<<"l">>) \o <<Star(vowels)>>
                    \o Lit(<<"V">>) \o <<Star(vowels)>> \o Lit(<<"y">>)
                    \o <<StarG(vowels_sukun, 2)>> \o Lit(<<"#">>) >>,
             <<"#", "1", "A", "l", "l", "~", "V", "i", "y", "o", "#">>),
        Rule(<< Lit(<<"#", "l">>) \o <<Star(vowels)>> \o Lit(<<"l">>)
                    \o <<Star(vowels)>> \o Lit(<<"V">>) \o <<Star(vowels)>>
                    \o Lit(<<"y">>) \o <<StarG(vowels_sukun, 1)>> \o Lit(<<"#">>) >>,
             <<"#", "l", "i", "l", "o", "l", "a", "V", "i", "y", "o", "#">>),
        Rule(<< Lit(<<"#", "A">>) \o <<Star(vowels)>> \o Lit(<<"l">>)
                    \o <<Star(vowels)>> \o Lit(<<"t">>) \o <<Star(vowels)>>
                    \o Lit(<<"y">>) \o <<StarG(vowels_sukun, 1)>> \o Lit(<<"#">>) >>,
             <<"#", "A", "l", "l", "~", "t", "i", "y", "o", "#">>),
        Rule(<< Lit(<<"#">>) \o <<StarG({"f", "b", "k"}, 1)>> \o Lit(<<"A">>)
                    \o <<Star(vowels)>> \o Lit(<<"l">>) \o <<Star(vowels)>>
                    \o Lit(<<"t">>) \o <<Star(vowels)>> \o Lit(<<"y">>)
                    \o <<StarG(vowels_sukun, 2)>> \o Lit(<<"#">>) >>,
             <<"#", "1", "A", "l", "l", "~", "t", "i", "y", "o", "#">>),
        Rule(<< Lit(<<"#", "l">>) \o <<Star(vowels)>> \o Lit(<<"l">>)
                    \o <<Star(vowels)>> \o Lit(<<"t">>) \o <<Star(vowels)>>
                    \o Lit(<<"y">>) \o <<StarG(vowels_sukun, 1)>> \o Lit(<<"#">>) >>,
             <<"#", "l", "i", "l", "o", "l", "a", "t", "i", "y", "o", "#">>),
        Rule(<< Lit(<<"#", "A">>) \o <<Star(vowels)>> \o Lit(<<"l">>)
                    \o <<Star(vowels)>> \o Lit(<<"V">>) \o <<Star(vowels)>>
                    \o Lit(<<"y">>) \o <<Star(vowels)>> \o Lit(<<"n">>)
                    \o <<StarG({"a", "i"}, 1)>> \o Lit(<<"#">>) >>,
             <<"#", "A", "l", "l", "~", "V", "i", "y", "o", "n", "a", "#">>),
        Rule(<< Lit(<<"#">>) \o <<StarG({"f", "b", "k"}, 1)>> \o Lit(<<"A">>)
                    \o <<Star(vowels)>> \o Lit(<<"l">>) \o <<Star(vowels)>>
                    \o Lit(<<"V">>) \o <<Star(vowels)>> \o Lit(<<"y">>)
                    \o <<Star(vowels)>> \o Lit(<<"n">>)
                    \o <<StarG({"a", "i"}, 2)>> \o Lit(<<"#">>) >>,
             <<"#", "1", "A", "l", "l", "~", "V", "i", "y", "o", "n", "a", "#">>),
        Rule(<< Lit(<<"#", "l">>) \o <<Star(vowels)>> \o Lit(<<"l">>)
                    \o <<Star(vowels)>> \o Lit(<<"V">>) \o <<Star(vowels)>>
                    \o Lit(<<"y">>) \o <<Star(vowels)>> \o Lit(<<"n">>)
                    \o <<StarG({"a", "i"}, 1)>> \o Lit(<<"#">>) >>,
             <<"#", "l", "i", "l", "o", "l", "a", "V", "i", "y", "o", "n", "a", "#">>),
        Rule(<< Lit(<<"#", "d">>) \o <<Star(vowels)>> \o Lit(<<"A">>)
                    \o <<Star(vowels)>> \o Lit(<<"w">>) \o <<Star(vowels)>>
                    \o Lit(<<"d">>) \o <<StarG({"N", "K", "a", "i"}, 1)>>
                    \o Lit(<<"#">>),
                Lit(<<"#", "d">>) \o <<Star(vowels)>> \o Lit(<<"A">>)
                    \o <<Star(vowels)>> \o Lit(<<"w">>) \o <<Star(vowels)>>
                    \o Lit(<<"d">>) \o <<StarG({"A", "F"}, 1)>> \o Lit(<<"#">>) >>,
             <<"#", "d", "a", "A", "w", "u", "w", "o", "d", "1", "#">>),
        Rule(<< Lit(<<"#", "T">>) \o <<Star(vowels)>> \o Lit(<<"A">>)
                    \o <<Star(vowels)>> \o Lit(<<"w">>) \o <<Star(vowels)>>
                    \o Lit(<<"s">>) \o <<StarG({"N", "K", "a", "i"}, 1)>>
                    \o Lit(<<"#">>),
                Lit(<<"#", "T">>) \o <<Star(vowels)>> \o Lit(<<"A">>)
                    \o <<Star(vowels)>> \o Lit(<<"w">>) \o <<Star(vowels)>>
                    \o Lit(<<"s">>) \o <<StarG({"A", "F"}, 1)>> \o Lit(<<"#">>) >>,
             <<"#", "T", "a", "A", "w", "u", "w", "o", "s", "1", "#">>),
        Rule(<< Lit(<<"#", "n">>) \o <<Star(vowels)>> \o Lit(<<"A">>)
                    \o <<Star(vowels)>> \o Lit(<<"w">>) \o <<Star(vowels)>>
                    \o Lit(<<"s">>) \o <<StarG({"N", "K", "a", "i"}, 1)>>
                    \o Lit(<<"#">>),
                Lit(<<"#", "n">>) \o <<Star(vowels)>> \o Lit(<<"A">>)
                    \o <<Star(vowels)>> \o Lit(<<"w">>) \o <<Star(vowels)>>
                    \o Lit(<<"s">>) \o <<StarG({"A", "F"}, 1)>> \o Lit(<<"#">>) >>,
             <<"#", "n", "a", "A", "w", "u", "w", "o", "s", "1", "#">>),
        Rule(<< Lit(<<"#", "T">>) \o <<Star(vowels)>> \o Lit(<<"h">>)
                    \o <<Star(vowels)>> \o Lit(<<"#">>) >>,
             <<"#", "T", "A", "h", "A", "#">>)
    >>

handle_special_cases(text) ==
    ApplyRules(special_cases_rules, 1, clean_str(text))

(***************************************************************************)
(* _handle_lunar_solar_lam                                                 *)
(***************************************************************************)
lunar_letters ==
    {"O", "I", "b", "g", "H", "j", "k", "w", "x", "f", "E", "q", "y", "m", "h"}

\* chars[k] for a 0-based k.
At(chars, k) == chars[k + 1]

\* chars with chars[k] = unit, for a 0-based k.
Put(chars, k, unit) == [chars EXCEPT ![k + 1] = unit]

\* chars.pop(k), for a 0-based k.
Pop(chars, k) == SubSeq(chars, 1, k) \o SubSeq(chars, k + 2, Len(chars))

\* lines 357-362
LamWaslAtStart(chars) ==
    IF At(chars, 0) = <<"#">> /\ At(chars, 1) = <<"A">>
       /\ At(chars, 2) = <<"l">> /\ At(chars, 3) = <<"A">>
    THEN Put(Put(chars, 1, <<"O">>), 3, <<"i">>)
    ELSE chars

\* lines 368-411: the article at the start of the text.
LamAtStart(chars) ==
    LET prefixed(c) ==
            At(chars, 0) = <<"#">> /\ At(chars, 1) = <<c>> /\ At(chars, 2) = <<"A">>
            /\ At(chars, 3) = <<"l">> /\ Len(chars) > 4
            /\ UnitIn(At(chars, 4), lunar_letters)
    IN  IF At(chars, 0) = <<"#">> /\ At(chars, 1) = <<"A">> /\ At(chars, 2) = <<"l">>
           /\ Len(chars) > 3 /\ UnitIn(At(chars, 3), lunar_letters)
        THEN Put(Put(chars, 1, <<"O">>), 2, <<"l", "o">>)
        ELSE IF At(chars, 0) = <<"#">> /\ At(chars, 1) = <<"l">> /\ At(chars, 2) = <<"l">>
                /\ Len(chars) > 3 /\ UnitIn(At(chars, 3), lunar_letters)
        THEN Put(chars, 2, <<"l", "o">>)
        ELSE IF prefixed("f") \/ prefixed("b") \/ prefixed("k")
        THEN Put(Put(chars, 2, <<"l">>), 3, <<"o">>)
        ELSE IF At(chars, 0) = <<"#">> /\ At(chars, 1) = <<"A">> /\ At(chars, 2) = <<"l">>
        THEN IF Len(chars) > 3 /\ At(chars, 3) # <<"~">>
             THEN Pop(Put(Put(chars, 1, <<"O">>), 3, At(chars, 3) \o <<"~">>), 2)
             ELSE Put(chars, 1, <<"O">>)
        ELSE chars

\* lines 414-418
LamEdges(chars) ==
    LET led == IF At(chars, 0) # <<"#">> THEN << <<"#">> >> \o chars ELSE chars
    IN  IF led[Len(led)] # <<"#">> THEN Append(led, <<"#">>) ELSE led

solar_letters ==
    {"t", "v", "d", "V", "r", "z", "s", "G", "S", "D", "T", "Z", "l",
     "n"}

lunar_chars ==
    {"O", "I", "b", "g", "H", "j", "k", "w", "x", "f", "E", "q", "y",
     "m", "h"}

lunar_solar_rules ==
    <<
        Rule(<< Lit(<<"w", "#", "A", "l">>) \o <<OneG(solar_letters, 1)>> >>,
             <<"w", "#", "1", "~">>),
        Rule(<< LitG(<<"A">>, 1) \o <<StarG(vowels_sukun, 1)>>
                    \o Lit(<<"#", "A", "l">>) \o <<OneG(solar_letters, 2)>>,
                LitG(<<"Y">>, 1) \o <<StarG(vowels_sukun, 1)>>
                    \o Lit(<<"#", "A", "l">>) \o <<OneG(solar_letters, 2)>>,
                LitG(<<"y">>, 1) \o <<StarG({"u", "i", "o"}, 1)>>
                    \o Lit(<<"#", "A", "l">>) \o <<OneG(solar_letters, 2)>>,
                LitG(<<"w", "o">>, 1) \o Lit(<<"#", "A", "l">>)
                    \o <<OneG(solar_letters, 2)>> >>,
             <<"#", "2", "~">>),
        Rule(<< LitG(<<"y">>, 1) \o <<StarG({"a", "~"}, 1)>>
                    \o Lit(<<"#", "A", "l">>) \o <<OneG(solar_letters, 2)>> >>,
             <<"1", "#", "2", "~">>),
        Rule(<< Lit(<<"p">>) \o <<StarG(vowels, 1)>> \o Lit(<<"#", "A", "l">>)
                    \o <<OneG(solar_letters, 2)>> >>,
             <<"t", "1", "#", "2", "~">>),
        Rule(<< Lit(<<"#">>) \o <<StarG({"f", "k", "b"}, 1)>> \o Lit(<<"A", "l">>)
                    \o <<OneG(solar_letters, 2)>> >>,
             <<"#", "1", "2", "~">>),
        Rule(<< Lit(<<"#", "l", "l">>) \o <<OneG(solar_letters, 1)>> >>,
             <<"l", "#", "1", "~">>),
        Rule(<< Lit(<<"#", "A", "l">>) \o LitG(<<"A">>, 1) >>,
             <<"#", "l", "i">>),
        Rule(<< LitG(<<"A">>, 1) \o <<StarG(vowels_sukun, 1)>>
                    \o Lit(<<"#", "A", "l">>) \o <<OneG(lunar_chars, 2)>>,
                LitG(<<"Y">>, 1) \o <<StarG(vowels_sukun, 1)>>
                    \o Lit(<<"#", "A", "l">>) \o <<OneG(lunar_chars, 2)>>,
                LitG(<<"y">>, 1) \o <<StarG({"u", "i", "o"}, 1)>>
                    \o Lit(<<"#", "A", "l">>) \o <<OneG(lunar_chars, 2)>>,
                LitG(<<"w", "o">>, 1) \o Lit(<<"#", "A", "l">>)
                    \o <<OneG(lunar_chars, 2)>> >>,
             <<"#", "l", "o", "2">>),
        Rule(<< Lit(<<"#">>) \o <<StarG({"f", "k", "b"}, 1)>> \o Lit(<<"A", "l">>)
                    \o <<OneG(lunar_chars, 2)>> >>,
             <<"#", "1", "l", "o", "2">>),
        Rule(<< Lit(<<"#", "A", "l">>) \o <<OneG(lunar_chars, 1)>> >>,
             <<"#", "O", "l", "o", "1">>),
        Rule(<< Lit(<<"#", "l", "l">>) \o <<OneG(lunar_chars, 1)>> >>,
             <<"#", "l", "l", "o", "1">>)
    >>

handle_lunar_solar_lam(text) ==
    LET cleaned == clean_str(text)
        chars == str_to_chars(cleaned)
    IN  IF Len(chars) < 4 THEN cleaned
        ELSE ApplyRules(lunar_solar_rules, 1,
                        Join(LamEdges(LamAtStart(LamWaslAtStart(chars)))))

(***************************************************************************)
(* _handle_tanween_shaddeh                                                 *)
(***************************************************************************)
\* lines 489-492: the loop from 0-based index i on.
RECURSIVE ShaddehFrom(_, _)
ShaddehFrom(chars, i) ==
    IF ~(i < Len(chars)) THEN chars
    ELSE IF At(chars, i) = <<"~">> /\ i > 0 /\ UnitIn(At(chars, i - 1), ALPHABET)
         THEN ShaddehFrom(Put(chars, i, <<"o">> \o At(chars, i - 1)), i + 1)
         ELSE ShaddehFrom(chars, i + 1)

\* lines 495-497
FinalAlef(chars) ==
    LET last == chars[Len(chars)]
    IN  IF last # <<"o">> /\ (last = <<"A">> \/ last = <<"Y">>)
        THEN Append(chars, <<"o">>)
        ELSE chars

\* lines 500-509
AjezExtension(chars, is_ajez) ==
    LET last == chars[Len(chars)]
    IN  IF is_ajez /\ last \notin {<<"o">>, <<"N">>, <<"F">>, <<"K">>}
        THEN Append(chars, CASE last = <<"a">> -> <<"A", "o">>
                             [] last = <<"i">> -> <<"y", "o">>
                             [] last = <<"u">> -> <<"w", "o">>
                             [] OTHER -> <<"w", "o">>)
        ELSE chars

tanween_rules ==
    <<
        Rule(<< Lit(<<"A", "F">>) >>,
             <<"n", "o">>),
        Rule(<< Lit(<<"p", "N">>) >>,
             <<"t", "u", "n", "o">>),
        Rule(<< Lit(<<"p", "F">>) >>,
             <<"t", "a", "n", "o">>),
        Rule(<< Lit(<<"p", "K">>) >>,
             <<"t", "i", "n", "o">>),
        Rule(<< Lit(<<"Y", "F">>) >>,
             <<"n", "o">>),
        Rule(<< <<One({"N", "K", "F"})>> >>,
             <<"n", "o">>)
    >>

handle_tanween_shaddeh(text, is_ajez) ==
    LET cleaned == clean_str(text)
        chars == str_to_chars(cleaned)
    IN  IF chars = <<>> THEN cleaned
        ELSE Without(ApplyRules(tanween_rules, 1,
                         Join(AjezExtension(FinalAlef(ShaddehFrom(chars, 0)), is_ajez))),
                     {"~"})

(***************************************************************************)
(* _handle_hamzat_wasl                                                     *)
(***************************************************************************)
\* lines 552-554
WaslAtStart(chars) ==
    IF Len(chars) > 3 /\ At(chars, 1) = <<"A">>
       /\ At(chars, 2) # <<"l">> /\ At(chars, 3) # <<"l">>
    THEN Put(chars, 1, <<"I", "i">>)
    ELSE chars

wasl_followers ==
    {"O", "I", "b", "t", "v", "j", "H", "x", "d", "V", "r", "z", "s",
     "G", "S", "D", "T", "Z", "E", "g", "f", "q", "k", "m", "n", "h",
     "w", "y"}

wasl_word_letters ==
    {"O", "I", "b", "t", "v", "j", "H", "x", "d", "V", "r", "z", "s",
     "G", "S", "D", "T", "Z", "E", "g", "f", "q", "k", "l", "m", "n",
     "h", "w", "y"}

hamzat_wasl_rules ==
    <<
        Rule(<< <<StarG({"y", "w", "A", "Y"}, 1)>> \o Lit(<<"#", "A">>)
                    \o <<Star(vowels_sukun)>> \o Lit(<<"b">>)
                    \o <<Star(vowels_sukun)>> \o Lit(<<"n">>) >>,
             <<"#", "b", "o", "n">>),
        Rule(<< Lit(<<"#">>) \o <<StarG({"f", "k", "l", "b"}, 1)>> \o Lit(<<"A">>)
                    \o <<Star(vowels_sukun)>> \o Lit(<<"b">>)
                    \o <<Star(vowels_sukun)>> \o Lit(<<"n">>) >>,
             <<"#", "1", "b", "o", "n">>),
        Rule(<< <<StarG({"y", "w", "A", "Y"}, 1)>> \o Lit(<<"#", "A">>)
                    \o <<Star(vowels_sukun)>> \o Lit(<<"m">>)
                    \o <<Star(vowels_sukun)>> \o Lit(<<"r">>) >>,
             <<"#", "m", "o", "r">>),
        Rule(<< Lit(<<"#">>) \o <<StarG({"f", "k", "l", "b"}, 1)>> \o Lit(<<"A">>)
                    \o <<Star(vowels_sukun)>> \o Lit(<<"m">>)
                    \o <<Star(vowels_sukun)>> \o Lit(<<"r">>) >>,
             <<"#", "1", "m", "o", "r">>),
        Rule(<< <<StarG({"y", "w", "A", "Y"}, 1)>> \o Lit(<<"#", "A">>)
                    \o <<Star(vowels_sukun)>> \o Lit(<<"v">>)
                    \o <<Star(vowels_sukun)>> \o Lit(<<"n">>)
                    \o <<Star(vowels_sukun)>> \o Lit(<<"A">>)
                    \o <<Star(vowels_sukun)>> \o Lit(<<"n">>) >>,
             <<"#", "v", "o", "n", "A", "n">>),
        Rule(<< Lit(<<"#">>) \o <<StarG({"f", "k", "l", "b"}, 1)>> \o Lit(<<"A">>)
                    \o <<Star(vowels_sukun)>> \o Lit(<<"v">>)
                    \o <<Star(vowels_sukun)>> \o Lit(<<"n">>)
                    \o <<Star(vowels_sukun)>> \o Lit(<<"A">>)
                    \o <<Star(vowels_sukun)>> \o Lit(<<"n">>) >>,
             <<"#", "1", "v", "o", "n", "A", "n">>),
        Rule(<< <<StarG({"y", "w", "A", "Y"}, 1)>> \o Lit(<<"#", "A">>)
                    \o <<Star(vowels_sukun)>> \o Lit(<<"v">>)
                    \o <<Star(vowels_sukun)>> \o Lit(<<"n">>)
                    \o <<Star(vowels_sukun)>> \o Lit(<<"y">>)
                    \o <<Star(vowels_sukun)>> \o Lit(<<"n">>) >>,
             <<"#", "v", "o", "n", "y", "o", "n">>),
        Rule(<< Lit(<<"#">>) \o <<StarG({"f", "k", "l", "b"}, 1)>> \o Lit(<<"A">>)
                    \o <<Star(vowels_sukun)>> \o Lit(<<"v">>)
                    \o <<Star(vowels_sukun)>> \o Lit(<<"n">>)
                    \o <<Star(vowels_sukun)>> \o Lit(<<"y">>)
                    \o <<Star(vowels_sukun)>> \o Lit(<<"n">>) >>,
             <<"#", "1", "v", "o", "n", "y", "o", "n">>),
        Rule(<< <<StarG({"y", "w", "A", "Y"}, 1)>> \o Lit(<<"#", "A">>)
                    \o <<Star(vowels_sukun)>> \o Lit(<<"v">>)
                    \o <<Star(vowels_sukun)>> \o Lit(<<"n">>)
                    \o <<Star(vowels_sukun)>> \o Lit(<<"t">>)
                    \o <<Star(vowels_sukun)>> \o Lit(<<"A">>)
                    \o <<Star(vowels_sukun)>> \o Lit(<<"n">>) >>,
             <<"#", "v", "o", "n", "t", "A", "n">>),
        Rule(<< Lit(<<"#">>) \o <<StarG({"f", "k", "l", "b"}, 1)>> \o Lit(<<"A">>)
                    \o <<Star(vowels_sukun)>> \o Lit(<<"v">>)
                    \o <<Star(vowels_sukun)>> \o Lit(<<"n">>)
                    \o <<Star(vowels_sukun)>> \o Lit(<<"t">>)
                    \o <<Star(vowels_sukun)>> \o Lit(<<"A">>)
                    \o <<Star(vowels_sukun)>> \o Lit(<<"n">>) >>,
             <<"#", "1", "v", "o", "n", "t", "A", "n">>),
        Rule(<< <<StarG({"y", "w", "A", "Y"}, 1)>> \o Lit(<<"#", "A">>)
                    \o <<Star(vowels_sukun)>> \o Lit(<<"v">>)
                    \o <<Star(vowels_sukun)>> \o Lit(<<"n">>)
                    \o <<Star(vowels_sukun)>> \o Lit(<<"t">>)
                    \o <<Star(vowels_sukun)>> \o Lit(<<"y">>)
                    \o <<Star(vowels_sukun)>> \o Lit(<<"n">>) >>,
             <<"#", "v", "o", "n", "t", "y", "o", "n">>),
        Rule(<< Lit(<<"#">>) \o <<StarG({"f", "k", "l", "b"}, 1)>> \o Lit(<<"A">>)
                    \o <<Star(vowels_sukun)>> \o Lit(<<"v">>)
                    \o <<Star(vowels_sukun)>> \o Lit(<<"n">>)
                    \o <<Star(vowels_sukun)>> \o Lit(<<"t">>)
                    \o <<Star(vowels_sukun)>> \o Lit(<<"y">>)
                    \o <<Star(vowels_sukun)>> \o Lit(<<"n">>) >>,
             <<"#", "1", "v", "o", "n", "t", "y", "o", "n">>),
        Rule(<< <<StarG({"y", "w", "A", "Y"}, 1)>> \o Lit(<<"#", "A">>)
                    \o <<Star(vowels_sukun)>> \o Lit(<<"s">>)
                    \o <<Star(vowels_sukun)>> \o Lit(<<"t">>)
                    \o <<StarG(vowels_sukun, 2)>> >>,
             <<"#", "s", "o", "t", "2">>),
        Rule(<< Lit(<<"#">>) \o <<StarG({"f", "k", "l", "b"}, 1)>> \o Lit(<<"A">>)
                    \o <<Star(vowels_sukun)>> \o Lit(<<"s">>)
                    \o <<Star(vowels_sukun)>> \o Lit(<<"t">>)
                    \o <<StarG(vowels_sukun, 2)>> >>,
             <<"#", "1", "s", "o", "t", "2">>),
        Rule(<< <<OneG({"A", "y", "Y"}, 1)>> \o Lit(<<"#", "A">>)
                    \o <<OneG(wasl_followers, 2)>> >>,
             <<"#", "2", "o">>),
        Rule(<< Lit(<<"#">>) \o <<StarG({"f", "k", "l", "b"}, 1)>> \o Lit(<<"A">>)
                    \o <<OneG(wasl_followers, 2)>>
                    \o <<AtLeastG(wasl_word_letters, 4, 3)>> >>,
             <<"#", "1", "2", "o", "3">>),
        Rule(<< Lit(<<"#", "A">>) \o <<OneG(wasl_followers, 1)>> >>,
             <<"#", "1", "o">>)
    >>

\* line 622
double_sukun == Rule(<< Lit(<<"o", "o">>) >>, <<"o">>)

handle_hamzat_wasl(text) ==
    LET cleaned == clean_str(text)
        chars == str_to_chars(cleaned)
    IN  IF chars = <<>> THEN cleaned
        ELSE Sub(double_sukun,
                 ApplyRules(hamzat_wasl_rules, 1, Join(WaslAtStart(chars))))

(***************************************************************************)
(* The normaliser: the four passes in the order every public method calls  *)
(* them (lines 1275-1278).                                                 *)
(***************************************************************************)
\* Python computes the value an assignment binds before the next statement
\* runs: value is computed first, then result.
Then(value, result) == IF value = value THEN result ELSE result

Normalise(text, is_ajez) ==
    LET special == handle_special_cases(text)
        lunar == handle_lunar_solar_lam(special)
        tanween == handle_tanween_shaddeh(lunar, is_ajez)
    IN  Then(special, Then(lunar, Then(tanween, handle_hamzat_wasl(tanween))))

(***************************************************************************)
(* The skeleton extractor: _get_chars_only, _get_harakat_only and          *)
(* _get_rokaz_khoutayt.                                                    *)
(***************************************************************************)
RECURSIVE LettersOf(_)
LettersOf(units) ==
    IF units = <<>> THEN <<>>
    ELSE IF UnitIn(Head(units), ALPHABET) /\ Head(units) # <<"#">>
         THEN <<Head(units)>> \o LettersOf(Tail(units))
         ELSE LettersOf(Tail(units))

get_chars_only(text) == Join(LettersOf(str_to_chars(text)))

\* lines 640-651: what the loop appends for the 0-based index i.
HarakaAt(chars, i) ==
    IF UnitIn(At(chars, i), HARAKAT) THEN At(chars, i)
    ELSE IF UnitIn(At(chars, i), ALPHABET) /\ At(chars, i) # <<"#">>
            /\ ~UnitIn(At(chars, i + 1), HARAKAT)
         THEN IF At(chars, i) \notin {<<"Y">>, <<"A">>} THEN <<"a">> ELSE <<"o">>
    ELSE IF UnitIn(At(chars, i), ALPHABET) /\ At(chars, i) # <<"#">>
            /\ UnitIn(At(chars, i + 1), HARAKAT)
         THEN At(chars, i + 1)
    ELSE <<>>

\* An extractor that keeps every mark of the text as it is written.
marks_only(text) == SelectSeq(text, LAMBDA c : c \in HARAKAT)

get_harakat_only(text) ==
    LET chars == str_to_chars(text)
        result == Join([k \in 1..(Len(chars) - 1) |-> HarakaAt(chars, k - 1)])
    IN  ReplaceSym(ReplaceSym(result, "i", <<"a">>), "u", <<"a">>)

\* line 662
fatha_sukun == Rule(<< Lit(<<"a", "o">>) >>, <<"-">>)

get_rokaz_khoutayt(harakat) ==
    ReplaceSym(ReplaceSym(Sub(fatha_sukun, harakat), "a", <<"U">>), "o", <<"U">>)

(***************************************************************************)
(* The meter matcher.  A meter's pattern is the list of its groups, each   *)
(* group the set of its alternatives; "%" is the anchor line 669 wraps     *)
(* the skeleton in.                                                        *)
(***************************************************************************)
METER_PATTERNS ==
    <<
        \* %U-[-U]U---U-[U-]U(---|-U-|--)%
        [name |-> "taweel", pattern |-> <<{<<"%">>}, {<<"U", "-">>}, {<<"-">>,
            <<"U">>}, {<<"U", "-", "-", "-", "U", "-">>}, {<<"U">>, <<"-">>},
            {<<"U">>}, {<<"-", "-", "-">>, <<"-", "U", "-">>, <<"-", "-">>},
            {<<"%">>}>>],
        \* %(--U-|U-U-)(-U-|UU-)--U-(-U-|UU-|--)%
        [name |-> "baseet", pattern |-> <<{<<"%">>}, {<<"-", "-", "U", "-">>,
            <<"U", "-", "U", "-">>}, {<<"-", "U", "-">>, <<"U", "U", "-">>},
            {<<"-", "-", "U", "-">>}, {<<"-", "U", "-">>, <<"U", "U", "-">>,
            <<"-", "-">>}, {<<"%">>}>>],
        \* %[-U]U--[-U]U-(-U--|-U-U|-U-|UU-)%
        [name |-> "madeed", pattern |-> <<{<<"%">>}, {<<"-">>, <<"U">>},
            {<<"U", "-", "-">>}, {<<"-">>, <<"U">>}, {<<"U", "-">>}, {<<"-",
            "U", "-", "-">>, <<"-", "U", "-", "U">>, <<"-", "U", "-">>, <<"U",
            "U", "-">>}, {<<"%">>}>>],
        \* %(UU|-)-U-(UU|-)-U-(UU-U-|--U-|UU--|---)%
        [name |-> "kamel", pattern |-> <<{<<"%">>}, {<<"U", "U">>, <<"-">>},
            {<<"-", "U", "-">>}, {<<"U", "U">>, <<"-">>}, {<<"-", "U", "-">>},
            {<<"U", "U", "-", "U", "-">>, <<"-", "-", "U", "-">>, <<"U", "U",
            "-", "-">>, <<"-", "-", "-">>}, {<<"%">>}>>],
        \* %(--U-|U-U-|-UU-|UUU-)(--U-|U-U-|-UU-|UUU-)(--U-|U-U-|-UU-|UUU-|---)%
        [name |-> "rajaz", pattern |-> <<{<<"%">>}, {<<"-", "-", "U", "-">>,
            <<"U", "-", "U", "-">>, <<"-", "U", "U", "-">>, <<"U", "U", "U",
            "-">>}, {<<"-", "-", "U", "-">>, <<"U", "-", "U", "-">>, <<"-",
            "U", "U", "-">>, <<"U", "U", "U", "-">>}, {<<"-", "-", "U", "-">>,
            <<"U", "-", "U", "-">>, <<"-", "U", "U", "-">>, <<"U", "U", "U",
            "-">>, <<"-", "-", "-">>}, {<<"%">>}>>],
        \* %(-U--|UU--|UU-U|-U-U)(-U--|UU--|UU-U|-U-U)(-U--|-U-|UU-|-U-U)%
        [name |-> "ramal", pattern |-> <<{<<"%">>}, {<<"-", "U", "-", "-">>,
            <<"U", "U", "-", "-">>, <<"U", "U", "-", "U">>, <<"-", "U", "-",
            "U">>}, {<<"-", "U", "-", "-">>, <<"U", "U", "-", "-">>, <<"U",
            "U", "-", "U">>, <<"-", "U", "-", "U">>}, {<<"-", "U", "-", "-">>,
            <<"-", "U", "-">>, <<"U", "U", "-">>, <<"-", "U", "-", "U">>},
            {<<"%">>}>>],
        \* %(--U-|U-U-|-UU-|UUU-)(--U-|U-U-|-UU-|UUU-)(-U-|-U-U)%
        [name |-> "saree3", pattern |-> <<{<<"%">>}, {<<"-", "-", "U", "-">>,
            <<"U", "-", "U", "-">>, <<"-", "U", "U", "-">>, <<"U", "U", "U",
            "-">>}, {<<"-", "-", "U", "-">>, <<"U", "-", "U", "-">>, <<"-",
            "U", "U", "-">>, <<"U", "U", "U", "-">>}, {<<"-", "U", "-">>,
            <<"-", "U", "-", "U">>}, {<<"%">>}>>],
        \* %(-U--|UU--)(--U-|U-U-)(-U--|UU--|---|UU-)%
        [name |-> "khafeef", pattern |-> <<{<<"%">>}, {<<"-", "U", "-", "-">>,
            <<"U", "U", "-", "-">>}, {<<"-", "-", "U", "-">>, <<"U", "-", "U",
            "-">>}, {<<"-", "U", "-", "-">>, <<"U", "U", "-", "-">>, <<"-",
            "-", "-">>, <<"U", "U", "-">>}, {<<"%">>}>>],
        \* %(--U-|U-U-|-UU-|UUU-)(---U|-U-U|UU-U)(--U-|-UU-|---)%
        [name |-> "munsare7", pattern |-> <<{<<"%">>}, {<<"-", "-", "U",
            "-">>, <<"U", "-", "U", "-">>, <<"-", "U", "U", "-">>, <<"U", "U",
            "U", "-">>}, {<<"-", "-", "-", "U">>, <<"-", "U", "-", "U">>,
            <<"U", "U", "-", "U">>}, {<<"-", "-", "U", "-">>, <<"-", "U", "U",
            "-">>, <<"-", "-", "-">>}, {<<"%">>}>>],
        \* %(U-UU-|U---)(U-UU-|U---)(U--)%
        [name |-> "wafer", pattern |-> <<{<<"%">>}, {<<"U", "-", "U", "U",
            "-">>, <<"U", "-", "-", "-">>}, {<<"U", "-", "U", "U", "-">>,
            <<"U", "-", "-", "-">>}, {<<"U", "-", "-">>}, {<<"%">>}>>],
        \* %(UU-U-|--U-)(UU-U-|--U-)UU-%
        [name |-> "o7othKamel", pattern |-> <<{<<"%">>}, {<<"U", "U", "-",
            "U", "-">>, <<"-", "-", "U", "-">>}, {<<"U", "U", "-", "U", "-">>,
            <<"-", "-", "U", "-">>}, {<<"U", "U", "-">>}, {<<"%">>}>>],
        \* %(U--|U-U){3}(U--|U-U|U-)%
        [name |-> "mutakareb", pattern |-> <<{<<"%">>}, {<<"U", "-", "-">>,
            <<"U", "-", "U">>}, {<<"U", "-", "-">>, <<"U", "-", "U">>},
            {<<"U", "-", "-">>, <<"U", "-", "U">>}, {<<"U", "-", "-">>, <<"U",
            "-", "U">>, <<"U", "-">>}, {<<"%">>}>>],
        \* %(-U-|UU-|--)(-U-|UU-|--)(-U-|UU-|--)(-U-|UU-|--)%
        [name |-> "mutadarak", pattern |-> <<{<<"%">>}, {<<"-", "U", "-">>,
            <<"U", "U", "-">>, <<"-", "-">>}, {<<"-", "U", "-">>, <<"U", "U",
            "-">>, <<"-", "-">>}, {<<"-", "U", "-">>, <<"U", "U", "-">>,
            <<"-", "-">>}, {<<"-", "U", "-">>, <<"U", "U", "-">>, <<"-",
            "-">>}, {<<"%">>}>>],
        \* %(--U-|U-U-|-UU-)-U-U--%
        [name |-> "mu5alla3Baseet", pattern |-> <<{<<"%">>}, {<<"-", "-", "U",
            "-">>, <<"U", "-", "U", "-">>, <<"-", "U", "U", "-">>}, {<<"-",
            "U", "-", "U", "-", "-">>}, {<<"%">>}>>],
        \* %(--U-|U-U-|-UU-|UUU-)(-U-|UU-)(--U-|---|--U-U)%
        [name |-> "majzoo2Baseet", pattern |-> <<{<<"%">>}, {<<"-", "-", "U",
            "-">>, <<"U", "-", "U", "-">>, <<"-", "U", "U", "-">>, <<"U", "U",
            "U", "-">>}, {<<"-", "U", "-">>, <<"U", "U", "-">>}, {<<"-", "-",
            "U", "-">>, <<"-", "-", "-">>, <<"-", "-", "U", "-", "U">>},
            {<<"%">>}>>],
        \* %(UU-U-|--U-)(UU-U-|UU--|--U-|UU-U-U|UU-U--)%
        [name |-> "majzoo2Kamel", pattern |-> <<{<<"%">>}, {<<"U", "U", "-",
            "U", "-">>, <<"-", "-", "U", "-">>}, {<<"U", "U", "-", "U", "-">>,
            <<"U", "U", "-", "-">>, <<"-", "-", "U", "-">>, <<"U", "U", "-",
            "U", "-", "U">>, <<"U", "U", "-", "U", "-", "-">>}, {<<"%">>}>>],
        \* %(-U--|UU--)(-U--|UU--|-U--U|-U-)%
        [name |-> "majzoo2Ramal", pattern |-> <<{<<"%">>}, {<<"-", "U", "-",
            "-">>, <<"U", "U", "-", "-">>}, {<<"-", "U", "-", "-">>, <<"U",
            "U", "-", "-">>, <<"-", "U", "-", "-", "U">>, <<"-", "U", "-">>},
            {<<"%">>}>>],
        \* %(--U-|U-U-|-UU-|UUU-)(-U-|-U-U)%
        [name |-> "majzoo2Saree3", pattern |-> <<{<<"%">>}, {<<"-", "-", "U",
            "-">>, <<"U", "-", "U", "-">>, <<"-", "U", "U", "-">>, <<"U", "U",
            "U", "-">>}, {<<"-", "U", "-">>, <<"-", "U", "-", "U">>},
            {<<"%">>}>>],
        \* %(-U--|UU--)(--U-|U-U-)%
        [name |-> "majzoo2khafeef", pattern |-> <<{<<"%">>}, {<<"-", "U", "-",
            "-">>, <<"U", "U", "-", "-">>}, {<<"-", "-", "U", "-">>, <<"U",
            "-", "U", "-">>}, {<<"%">>}>>],
        \* %(--U-|U-U-|-UU-|UUU-)(---U|---)%
        [name |-> "majzoo2Munsare7", pattern |-> <<{<<"%">>}, {<<"-", "-",
            "U", "-">>, <<"U", "-", "U", "-">>, <<"-", "U", "U", "-">>, <<"U",
            "U", "U", "-">>}, {<<"-", "-", "-", "U">>, <<"-", "-", "-">>},
            {<<"%">>}>>],
        \* %(U--|U-U){2}(U--|U-U|U-|-)%
        [name |-> "majzoo2Mutakareb", pattern |-> <<{<<"%">>}, {<<"U", "-",
            "-">>, <<"U", "-", "U">>}, {<<"U", "-", "-">>, <<"U", "-", "U">>},
            {<<"U", "-", "-">>, <<"U", "-", "U">>, <<"U", "-">>, <<"-">>},
            {<<"%">>}>>],
        \* %(-U-|UU-|--){2}(-U-|-U-U|UU--)%
        [name |-> "majzoo2Mutadarak", pattern |-> <<{<<"%">>}, {<<"-", "U",
            "-">>, <<"U", "U", "-">>, <<"-", "-">>}, {<<"-", "U", "-">>,
            <<"U", "U", "-">>, <<"-", "-">>}, {<<"-", "U", "-">>, <<"-", "U",
            "-", "U">>, <<"U", "U", "-", "-">>}, {<<"%">>}>>],
        \* %(U---|U--U)(U---|U--U)%
        [name |-> "hazaj", pattern |-> <<{<<"%">>}, {<<"U", "-", "-", "-">>,
            <<"U", "-", "-", "U">>}, {<<"U", "-", "-", "-">>, <<"U", "-", "-",
            "U">>}, {<<"%">>}>>],
        \* %(U-UU-|U---)(U-UU-|U---)%
        [name |-> "majzoo2Wafer", pattern |-> <<{<<"%">>}, {<<"U", "-", "U",
            "U", "-">>, <<"U", "-", "-", "-">>}, {<<"U", "-", "U", "U", "-">>,
            <<"U", "-", "-", "-">>}, {<<"%">>}>>],
        \* %(--U-|U-U-|-UU-|UUU-)(--U-|U-U-|-UU-|UUU-|---|--U--)%
        [name |-> "majzoo2Rajaz", pattern |-> <<{<<"%">>}, {<<"-", "-", "U",
            "-">>, <<"U", "-", "U", "-">>, <<"-", "U", "U", "-">>, <<"U", "U",
            "U", "-">>}, {<<"-", "-", "U", "-">>, <<"U", "-", "U", "-">>,
            <<"-", "U", "U", "-">>, <<"U", "U", "U", "-">>, <<"-", "-", "-">>,
            <<"-", "-", "U", "-", "-">>}, {<<"%">>}>>],
        \* %(U--U|U-U-)-U--%
        [name |-> "modare3", pattern |-> <<{<<"%">>}, {<<"U", "-", "-", "U">>,
            <<"U", "-", "U", "-">>}, {<<"-", "U", "-", "-">>}, {<<"%">>}>>],
        \* %-U-U-UU-%
        [name |-> "moktadab", pattern |-> <<{<<"%">>}, {<<"-", "U", "-", "U",
            "-", "U", "U", "-">>}, {<<"%">>}>>],
        \* %(--U-|U-U-)(-U--|UU--|---)%
        [name |-> "mojtath", pattern |-> <<{<<"%">>}, {<<"-", "-", "U", "-">>,
            <<"U", "-", "U", "-">>}, {<<"-", "U", "-", "-">>, <<"U", "U", "-",
            "-">>, <<"-", "-", "-">>}, {<<"%">>}>>],
        \* %(--U-|U-U-|-UU-|UUU-|---)%
        [name |-> "manhookRajaz", pattern |-> <<{<<"%">>}, {<<"-", "-", "U",
            "-">>, <<"U", "-", "U", "-">>, <<"-", "U", "U", "-">>, <<"U", "U",
            "U", "-">>, <<"-", "-", "-">>}, {<<"%">>}>>]
    >>

IsPrefixAt(alt, s, i) ==
    i + Len(alt) - 1 <= Len(s) /\ SubSeq(s, i, i + Len(alt) - 1) = alt

\* The groups k.. of a pattern match s from position i on (and may stop
\* before its end).
RECURSIVE MatchGroups(_, _, _, _)
MatchGroups(pattern, k, s, i) ==
    IF k > Len(pattern) THEN TRUE
    ELSE \E alt \in pattern[k] :
             IsPrefixAt(alt, s, i) /\ MatchGroups(pattern, k + 1, s, i + Len(alt))

\* A matcher that loses the closing anchor of the pattern.
re_match_open_end(pattern, s) ==
    MatchGroups(SubSeq(pattern, 1, Len(pattern) - 1), 1, s, 1)

\* re.match(pattern, s): a match that starts at the first symbol of s.
re_match(pattern, s) == MatchGroups(pattern, 1, s, 1)

\* A loop that keeps the last matching entry instead of returning the first.
RECURSIVE LastMeter(_, _)
LastMeter(k, s) ==
    IF k > Len(METER_PATTERNS) THEN "unknown"
    ELSE LET later == LastMeter(k + 1, s)
         IN  IF later # "unknown" THEN later
             ELSE IF MatchGroups(METER_PATTERNS[k].pattern, 1, s, 1)
                  THEN METER_PATTERNS[k].name
                  ELSE "unknown"

\* lines 671-675: the loop over METER_PATTERNS.items() from the k-th entry.
RECURSIVE FirstMeter(_, _)
FirstMeter(k, s) ==
    IF k > Len(METER_PATTERNS) THEN "unknown"
    ELSE IF re_match(METER_PATTERNS[k].pattern, s) THEN METER_PATTERNS[k].name
         ELSE FirstMeter(k + 1, s)

get_ba7er(rokaz) == FirstMeter(1, <<"%">> \o rokaz \o <<"%">>)

(***************************************************************************)
(* The foot segmenter, _get_tafa3eel.  The list it returns alternates a    *)
(* foot's name and its span of chars.                                      *)
(***************************************************************************)
fa3oolun == <<"f", "a", "E", "u", "w", "o", "l", "u", "n", "o">>

fa3oolu == <<"f", "a", "E", "u", "w", "o", "l", "u">>

mafa3eelun == <<"m", "a", "f", "a", "A", "o", "E", "i", "y", "o", "l", "u", "n", "o">>

mafa3ilun == <<"m", "a", "f", "a", "A", "o", "E", "i", "l", "u", "n", "o">>

mustaf3ilun == <<"m", "u", "s", "o", "t", "a", "f", "o", "E", "i", "l", "u", "n", "o">>

mutaf3ilun == <<"m", "u", "t", "a", "f", "o", "E", "i", "l", "u", "n", "o">>

musta3ilun == <<"m", "u", "s", "o", "t", "a", "E", "i", "l", "u", "n", "o">>

fa3ilun == <<"f", "a", "A", "o", "E", "i", "l", "u", "n", "o">>

fa3alun == <<"f", "a", "E", "i", "l", "u", "n", "o">>

fa3lun == <<"f", "a", "A", "o", "l", "u", "n", "o">>

\* A walk that forgets to advance i past the foot it emits.
AddFootInPlace(walk, chars, name, width) ==
    IF width = 0 THEN walk
    ELSE [feet |-> walk.feet \o <<name, Slice(chars, walk.i, walk.i + width)>>,
          i |-> walk.i]

\* One branch of the walk: the feet so far, the 0-based index i into chars,
\* and the foot added (width 0: none).
AddFoot(walk, chars, name, width) ==
    IF width = 0 THEN walk
    ELSE [feet |-> walk.feet \o <<name, Slice(chars, walk.i, walk.i + width)>>,
          i |-> walk.i + width]

\* A taweel walk that reads the third foot one symbol early.
TafaeelTaweelEarlyThird(rokaz, chars) ==
    LET s1 == Slice(rokaz, 0, 3)
        w1 == AddFoot([feet |-> <<>>, i |-> 0], chars,
                      IF s1 = <<"U", "-", "-">> THEN fa3oolun ELSE fa3oolu,
                      IF s1 = <<"U", "-", "-">> THEN 10
                      ELSE IF s1 = <<"U", "-", "U">> THEN 8 ELSE 0)
        w2 == AddFoot(w1, chars, mafa3eelun, 14)
        s3 == Slice(rokaz, 6, 9)
        w3 == AddFoot(w2, chars,
                      IF s3 = <<"U", "-", "-">> THEN fa3oolun ELSE fa3oolu,
                      IF s3 = <<"U", "-", "-">> THEN 10
                      ELSE IF s3 = <<"U", "-", "U">> THEN 8 ELSE 0)
        s4 == Slice(rokaz, 10, Len(rokaz))
        w4 == AddFoot(w3, chars,
                      IF s4 = <<"U", "-", "-", "-">> THEN mafa3eelun
                      ELSE IF s4 = <<"U", "-", "U", "-">> THEN mafa3ilun
                      ELSE fa3oolun,
                      IF s4 = <<"U", "-", "-", "-">> THEN 14
                      ELSE IF s4 = <<"U", "-", "U", "-">> THEN 12
                      ELSE IF s4 = <<"U", "-", "-">> THEN 10 ELSE 0)
    IN  w4.feet

\* lines 753-782
TafaeelTaweel(rokaz, chars) ==
    LET s1 == Slice(rokaz, 0, 3)
        w1 == AddFoot([feet |-> <<>>, i |-> 0], chars,
                      IF s1 = <<"U", "-", "-">> THEN fa3oolun ELSE fa3oolu,
                      IF s1 = <<"U", "-", "-">> THEN 10
                      ELSE IF s1 = <<"U", "-", "U">> THEN 8 ELSE 0)
        w2 == AddFoot(w1, chars, mafa3eelun, 14)
        s3 == Slice(rokaz, 7, 10)
        w3 == AddFoot(w2, chars,
                      IF s3 = <<"U", "-", "-">> THEN fa3oolun ELSE fa3oolu,
                      IF s3 = <<"U", "-", "-">> THEN 10
                      ELSE IF s3 = <<"U", "-", "U">> THEN 8 ELSE 0)
        s4 == Slice(rokaz, 10, Len(rokaz))
        w4 == AddFoot(w3, chars,
                      IF s4 = <<"U", "-", "-", "-">> THEN mafa3eelun
                      ELSE IF s4 = <<"U", "-", "U", "-">> THEN mafa3ilun
                      ELSE fa3oolun,
                      IF s4 = <<"U", "-", "-", "-">> THEN 14
                      ELSE IF s4 = <<"U", "-", "U", "-">> THEN 12
                      ELSE IF s4 = <<"U", "-", "-">> THEN 10 ELSE 0)
    IN  w4.feet

\* lines 784-816
TafaeelBaseet(rokaz, chars) ==
    LET s1 == Slice(rokaz, 0, 4)
        w1 == AddFoot([feet |-> <<>>, i |-> 0], chars,
                      IF s1 = <<"-", "-", "U", "-">> THEN mustaf3ilun
                      ELSE IF s1 = <<"U", "-", "U", "-">> THEN mutaf3ilun
                      ELSE musta3ilun,
                      IF s1 = <<"-", "-", "U", "-">> THEN 14
                      ELSE IF s1 = <<"U", "-", "U", "-">> THEN 12
                      ELSE IF s1 = <<"-", "U", "U", "-">> THEN 12 ELSE 0)
        s2 == Slice(rokaz, 4, 7)
        w2 == AddFoot(w1, chars,
                      IF s2 = <<"-", "U", "-">> THEN fa3ilun ELSE fa3alun,
                      IF s2 = <<"-", "U", "-">> THEN 10
                      ELSE IF s2 = <<"U", "U", "-">> THEN 8 ELSE 0)
        w3 == AddFoot(w2, chars, mustaf3ilun, 14)
        s4 == Slice(rokaz, 11, 14)
        w4 == AddFoot(w3, chars,
                      IF s4 = <<"-", "U", "-">> THEN fa3ilun
                      ELSE IF s4 = <<"U", "U", "-">> THEN fa3alun
                      ELSE fa3lun,
                      IF s4 = <<"-", "U", "-">> THEN 10
                      ELSE IF s4 = <<"U", "U", "-">> THEN 8
                      ELSE IF s4 = <<"-", "-">> THEN 8 ELSE 0)
    IN  w4.feet

get_tafa3eel(rokaz, chars, ba7er_name) ==
    IF ba7er_name = "taweel" THEN TafaeelTaweel(rokaz, chars)
    ELSE IF ba7er_name = "baseet" THEN TafaeelBaseet(rokaz, chars)
    ELSE <<>>

(***************************************************************************)
(* The ishbaa3 search, _get_truth_values and _do_eshbaa3_shater.           *)
(***************************************************************************)
\* The rows of a truth table are Python lists, which are shared when two
\* names are bound to one list: a table is kept as the list objects it has
\* (objs) and, for each of its entries, the object the entry refers to
\* (refs).
\* lines 685-687: the loop from the i-th entry on.  trues and falses are one
\* list (line 682), so the entry gets '1' and then '0' inserted at its front.
RECURSIVE InsertBits(_, _, _)
InsertBits(objs, refs, i) ==
    IF i > Len(refs) THEN objs
    ELSE InsertBits([objs EXCEPT ![refs[i]] = <<"0", "1">> \o @], refs, i + 1)

\* lines 679-689 on the shared objects; trues + falses lists the entries of
\* the one list twice.
RECURSIVE TruthObjects(_)
TruthObjects(count) ==
    IF count = 1 THEN [objs |-> <<<<"1">>, <<"0">>>>, refs |-> <<1, 2>>]
    ELSE LET sub == TruthObjects(count - 1)
         IN  [objs |-> InsertBits(sub.objs, sub.refs, 1),
              refs |-> sub.refs \o sub.refs]

\* The table as _do_eshbaa3_shater reads it: the value of each entry's row.
get_truth_values(count) ==
    LET table == TruthObjects(count)
    IN  [i \in 1..Len(table.refs) |-> table.objs[table.refs[i]]]

pronouns == {<<"h", "u">>, <<"h", "i">>, <<"m", "u">>}

\* re.split(r'(pronoun)#', text), line 696, from 1-based position i, with the
\* part under way starting at position from.
RECURSIVE SplitFrom(_, _, _)
SplitFrom(text, from, i) ==
    IF i > Len(text) THEN <<SubSeq(text, from, Len(text))>>
    ELSE IF /\ i + 2 <= Len(text)
            /\ SubSeq(text, i, i + 1) \in pronouns
            /\ text[i + 2] = "#"
         THEN <<SubSeq(text, from, i - 1), SubSeq(text, i, i + 1)>>
                  \o SplitFrom(text, i + 3, i + 3)
         ELSE SplitFrom(text, from, i + 1)

\* lines 697-701: the 0-based indices of the parts that are a pronoun.
RECURSIVE PronounPositions(_, _)
PronounPositions(parts, i) ==
    IF i > Len(parts) THEN <<>>
    ELSE (IF parts[i] \in pronouns THEN <<i - 1>> ELSE <<>>)
             \o PronounPositions(parts, i + 1)

\* lines 712-720: the bits of state from the 0-based index i on.  A '1' at an
\* index that temp_positions does not have raises IndexError.
RECURSIVE Lengthen(_, _, _, _)
Lengthen(temp_parts, temp_positions, state, i) ==
    IF i >= Len(state) THEN [raised |-> FALSE, parts |-> temp_parts]
    ELSE IF state[i + 1] # "1"
         THEN Lengthen(temp_parts, temp_positions, state, i + 1)
         ELSE IF i >= Len(temp_positions)
              THEN [raised |-> TRUE, parts |-> temp_parts]
              ELSE LET p == temp_positions[i + 1] + 1
                       part == temp_parts[p]
                       longer ==
                           IF part = <<"h", "u">> THEN part \o <<"w", "o">>
                           ELSE IF part = <<"h", "i">> THEN part \o <<"y", "o">>
                           ELSE IF part = <<"m", "u">> THEN part \o <<"w", "o">>
                           ELSE part
                   IN  Lengthen([temp_parts EXCEPT ![p] = longer],
                                temp_positions, state, i + 1)

\* lines 722-745 for one state's text: the analysis of the lengthened text.
\* Lines 726-727 turn each '#' into a space and then delete the spaces.
StateAnalysis(temp_parts) ==
    LET state_text == CollapseRuns(Join(temp_parts), "#", <<"#">>)
        arrodi_written == Without(state_text, {"#", " "})
        chars == get_chars_only(arrodi_written)
        harakat == get_harakat_only(arrodi_written)
        rokaz == get_rokaz_khoutayt(harakat)
        ba7er_name == get_ba7er(rokaz)
    IN  [shater |-> state_text, arrodi |-> arrodi_written, chars |-> chars,
         harakat |-> harakat, rokaz |-> rokaz, ba7er_name |-> ba7er_name,
         tafa3eel |-> IF ba7er_name # "unknown"
                      THEN get_tafa3eel(rokaz, chars, ba7er_name) ELSE <<>>]

\* lines 708-747: one pass of the loop over truth_table, for its k-th row:
\* the call raises, returns the first analysis with a meter, or goes on.
TryRow(parts, positions, truth_table, k) ==
    LET applied == Lengthen(parts, positions, truth_table[k], 0)
        found == StateAnalysis(applied.parts)
    IN  IF applied.raised THEN [outcome |-> "IndexError"]
        ELSE IF found.ba7er_name # "unknown"
             THEN [outcome |-> "returned", result |-> found]
             ELSE [outcome |-> "next"]

RECURSIVE TryRows(_, _, _, _)
TryRows(parts, positions, truth_table, k) ==
    IF k > Len(truth_table) THEN [outcome |-> "unknownAlso"]
    ELSE LET tried == TryRow(parts, positions, truth_table, k)
         IN  IF tried.outcome = "next"
             THEN TryRows(parts, positions, truth_table, k + 1)
             ELSE tried

\* line 693
Fence(text) == <<"#">> \o text \o <<"#">>

\* lines 703-706
TruthTableFor(positions) ==
    IF positions # <<>> THEN get_truth_values(Len(positions)) ELSE <<<<"0">>>>

\* _do_eshbaa3_shater(text)
do_eshbaa3_shater(text) ==
    LET parts == SplitFrom(Fence(text), 1, 1)
        positions == PronounPositions(parts, 1)
    IN  TryRows(parts, positions, TruthTableFor(positions), 1)

(***************************************************************************)
(* The rhyme analyser, _analyse_qafeeh.  A QafeehAnalysis is a record; a   *)
(* call that raises IndexError is the record Raised.                       *)
(***************************************************************************)
\* list[-n] of Python, for n >= 1 (the caller checks n <= Len(list)).
FromEnd(list, n) == list[Len(list) - n + 1]

RECURSIVE Reverse(_)
Reverse(list) ==
    IF list = <<>> THEN <<>> ELSE Reverse(Tail(list)) \o <<Head(list)>>

\* lines 996-998: chars[i] ends a sukun, for a 0-based i.
IsSukunAt(chars, i) ==
    \/ At(chars, i) = <<"o">>
    \/ /\ At(chars, i) \in {<<"A">>, <<"Y">>}
       /\ i + 1 < Len(chars)
       /\ At(chars, i + 1) # <<"o">>

\* lines 1006-1008: the while loop from index on; what it appends and the
\* index it stops at.
RECURSIVE SkipMarks(_, _, _)
SkipMarks(chars, current_qafeeh, index) ==
    IF index >= 0 /\ ~UnitIn(At(chars, index), ALPHABET)
    THEN SkipMarks(chars, Append(current_qafeeh, At(chars, index)), index - 1)
    ELSE [current_qafeeh |-> current_qafeeh, index |-> index]

\* lines 1001-1013: the unit at i has brought sokons_count to 2.
CloseQafeeh(chars, current_qafeeh, i) ==
    LET before == IF i - 1 >= 0 THEN Append(current_qafeeh, At(chars, i - 1))
                  ELSE current_qafeeh
        skipped == SkipMarks(chars, before, i - 2)
    IN  IF /\ Len(skipped.current_qafeeh) >= 3
           /\ FromEnd(skipped.current_qafeeh, 3) = <<"o">>
           /\ skipped.index >= 0
        THEN Append(skipped.current_qafeeh, At(chars, skipped.index))
        ELSE skipped.current_qafeeh

\* lines 994-1013: the loop from the 0-based index i down.
RECURSIVE QafeehFrom(_, _, _, _)
QafeehFrom(chars, current_qafeeh, sokons_count, i) ==
    IF i < 0 THEN current_qafeeh
    ELSE LET taken == Append(current_qafeeh, At(chars, i))
             count == IF IsSukunAt(chars, i) THEN sokons_count + 1 ELSE sokons_count
         IN  IF count >= 2 THEN CloseQafeeh(chars, taken, i)
             ELSE QafeehFrom(chars, taken, count, i - 1)

\* lines 989-1016: current_qafeeh_text for the units of the normalised ajez.
QafeehText(chars) ==
    ReplaceSym(Join(Reverse(QafeehFrom(chars, <<>>, 0, Len(chars) - 1))), "#", <<" ">>)

\* lines 1025-1042: the loop from the 0-based index i down; each entry is
\* what one pass appends to qafeeh_alphas, qafeeh_harakat and
\* qafeeh_word_positions.  The 'i -= 1' of line 1042 does not change the
\* next i of the for loop.
RECURSIVE PartsFrom(_, _, _)
PartsFrom(chars, word_no, i) ==
    IF i < 0 THEN <<>>
    ELSE LET unit == At(chars, i)
             no == IF unit = <<"#">> THEN word_no + 1 ELSE word_no
         IN  IF UnitIn(unit, ALPHABET)
             THEN <<[alpha |-> unit, haraka |-> <<>>, word |-> no]>>
                      \o PartsFrom(chars, no, i - 1)
             ELSE IF UnitIn(unit, HARAKAT)
                  THEN IF i - 1 >= 0
                       THEN <<[alpha |-> At(chars, i - 1), haraka |-> unit, word |-> no]>>
                                \o PartsFrom(chars, no, i - 1)
                       ELSE <<[alpha |-> <<>>, haraka |-> unit, word |-> word_no]>>
                                \o PartsFrom(chars, word_no, i - 1)
                  ELSE PartsFrom(chars, word_no, i - 1)

\* lines 1019-1046
QafeehParts(chars) == Reverse(PartsFrom(chars, 1, Len(chars) - 1))

Raised == [raised |-> TRUE]

waw_yaa_alef == {<<"A">>, <<"Y">>, <<"w">>, <<"y">>}

\* lines 1062-1093: rhyme_type, rawee_pos and the letters after the rawee.
\* need is the length the negative indexes of the branch taken ask for.
RaweeOf(parts) ==
    LET n == Len(parts)
        last_char == FromEnd(parts, 1).alpha
        unbound == n > 1 /\ FromEnd(parts, 2).haraka # <<"o">>
    IN  IF (last_char = <<"h">> /\ unbound) \/ (last_char = <<"k">> /\ unbound)
        THEN [need |-> 2, rhyme_type |-> "F", rawee_pos |-> n - 2]
        ELSE IF last_char \in waw_yaa_alef
             THEN IF n > 1 /\ FromEnd(parts, 2).alpha = <<"h">> /\ unbound
                  THEN [need |-> 3, rhyme_type |-> "F", rawee_pos |-> n - 3]
                  ELSE [need |-> 2, rhyme_type |-> "F", rawee_pos |-> n - 2]
             ELSE [need |-> 1, rhyme_type |-> "M", rawee_pos |-> n - 1]

\* lines 1101-1114: the letter before c, with its haraka and its word.
BeforeRawee(parts, rawee_pos) ==
    LET other == [alpha |-> <<"g">>, haraka |-> <<"g">>, word |-> -1]
    IN  IF rawee_pos > 1
        THEN IF At(parts, rawee_pos - 2).alpha # <<"#">>
             THEN At(parts, rawee_pos - 2)
             ELSE IF rawee_pos > 2 THEN At(parts, rawee_pos - 3) ELSE other
        ELSE other

\* lines 1117-1120
IsRedf(c, ch, cbh) ==
    \/ c = <<"w">> /\ ch = <<"o">> /\ cbh = <<"u">>
    \/ c = <<"y">> /\ ch = <<"o">> /\ cbh = <<"i">>
    \/ c = <<"A">> /\ cbh = <<"a">>
    \/ c = <<"Y">> /\ cbh = <<"a">>

\* lines 1127-1146; an empty str is false.
TypeDesc(rhyme_type, kharoog, redf, ta2ses) ==
    IF rhyme_type = "F"
    THEN IF kharoog = <<>> /\ redf = <<>> /\ ta2ses = <<>> THEN "mutlaqa mujarrada"
         ELSE IF redf # <<>>
              THEN IF kharoog # <<>> THEN "mutlaqa bi-redf wa khurooj"
                   ELSE "mutlaqa bi-redf"
         ELSE IF ta2ses # <<>>
              THEN IF kharoog # <<>> THEN "mutlaqa bi-ta2sees wa khurooj"
                   ELSE "mutlaqa bi-ta2sees"
         ELSE "mutlaqa bi-khurooj"
    ELSE IF redf = <<>> /\ ta2ses = <<>> THEN "muqayyada mujarrada"
         ELSE IF redf # <<>> THEN "muqayyada bi-redf"
         ELSE "muqayyada bi-ta2sees"

\* lines 1048-1158 for the entries of the three lists.
Classify(parts) ==
    IF parts = <<>> THEN Raised
    ELSE LET n == Len(parts)
             start_idx == IF parts[1].alpha = <<>> THEN 1 ELSE 0
             qafeeh_text ==
                 Join([k \in 1..(n - start_idx) |->
                          parts[k + start_idx].alpha \o parts[k + start_idx].haraka])
             found == RaweeOf(parts)
             pair(k) == FromEnd(parts, k).alpha \o FromEnd(parts, k).haraka
         IN  IF found.need > n THEN Raised
             ELSE LET rawee_pos == found.rawee_pos
                      rawee == pair(found.need)
                      wasel == IF found.need >= 2 THEN pair(found.need - 1) ELSE <<>>
                      kharoog == IF found.need = 3 THEN pair(1) ELSE <<>>
                      c == At(parts, rawee_pos - 1).alpha
                      ch == At(parts, rawee_pos - 1).haraka
                      cb == BeforeRawee(parts, rawee_pos)
                      with_redf == rawee_pos > 0 /\ IsRedf(c, ch, cb.haraka)
                      with_ta2ses ==
                          /\ rawee_pos > 0
                          /\ ~with_redf
                          /\ cb.alpha \in {<<"A">>, <<"Y">>}
                          /\ cb.word = 1
                      redf == IF with_redf THEN c \o ch ELSE <<>>
                      ta2ses == IF with_ta2ses THEN cb.alpha ELSE <<>>
                      dakheel == IF with_ta2ses THEN c \o ch ELSE <<>>
                  IN  [raised |-> FALSE,
                       text |-> ReplaceSym(qafeeh_text, "#", <<" ">>),
                       type |-> TypeDesc(found.rhyme_type, kharoog, redf, ta2ses),
                       rawee |-> rawee, wasel |-> wasel, kharoog |-> kharoog,
                       ta2ses |-> ta2ses, dakheel |-> dakheel, redf |-> redf]

\* lines 986-1158: the analysis of the ajez the four passes have normalised.
QafeehOf(normalised) ==
    LET current_ajez == Without(normalised, {"#", " "})
        current_qafeeh_text == QafeehText(str_to_chars(current_ajez))
    IN  Then(current_qafeeh_text,
             Classify(QafeehParts(str_to_chars(current_qafeeh_text))))

\* _analyse_qafeeh(ajez)
analyse_qafeeh(ajez) ==
    LET normalised == Normalise(ajez, TRUE)
    IN  Then(normalised, QafeehOf(normalised))

(***************************************************************************)
(* analyze_rhyme_patterns.  An entry of results is the marker 'empty' or a *)
(* QafeehAnalysis with its errors; the baseline's errors stay None.  The   *)
(* messages are named by the defect they report.                           *)
(***************************************************************************)
empty == <<"Le", "Lm", "Lp", "Lt", "Ly">>

None == <<"None">>

\* line 1398
rawee_differs == "ikhtilaf al-rawiyy"

\* line 1402
wasel_differs == "ikhtilaf harf al-wasl"

\* line 1406
sinad_ta2sees == "sinad al-ta2sees"

\* line 1408
needs_ta2sees == "yajib an tu2assas"

\* line 1412
sinad_redf == "sinad al-redf"

\* line 1414
needs_redf == "yajib an turdif"

\* line 1418
redf_mixed == "al-yaa aw al-waw ma3a al-alef"

\* line 1422
kharoog_differs == "al-khurooj mukhtalif"

EmptyEntry == [kind |-> "empty"]

Entry(qafeeh, errors) ==
    [kind |-> "qafeeh", text |-> qafeeh.text, type |-> qafeeh.type,
     rawee |-> qafeeh.rawee, wasel |-> qafeeh.wasel, kharoog |-> qafeeh.kharoog,
     ta2ses |-> qafeeh.ta2ses, dakheel |-> qafeeh.dakheel, redf |-> qafeeh.redf,
     errors |-> errors]

\* A comparison that reports the wasl when it is the same.
ErrorsWaselInverted(current_qafeeh, base_qafeeh) ==
    IF current_qafeeh.rawee # base_qafeeh.rawee THEN <<rawee_differs>>
    ELSE IF current_qafeeh.wasel = base_qafeeh.wasel THEN <<wasel_differs>>
    ELSE <<>>

\* A comparison without the rawee test of lines 1397-1398.
ErrorsRaweeUnchecked(current_qafeeh, base_qafeeh) ==
    IF current_qafeeh.wasel # base_qafeeh.wasel THEN <<wasel_differs>>
    ELSE IF current_qafeeh.rawee # base_qafeeh.rawee THEN <<kharoog_differs>>
    ELSE <<>>

\* A comparison whose last test asks for an equal rawee.
ErrorsKharoogOnEqualRawee(current_qafeeh, base_qafeeh) ==
    IF current_qafeeh.rawee # base_qafeeh.rawee THEN <<rawee_differs>>
    ELSE IF current_qafeeh.wasel # base_qafeeh.wasel THEN <<wasel_differs>>
    ELSE <<kharoog_differs>>

\* lines 1393-1422: the errors of a verse against the baseline.
Errors(current_qafeeh, base_qafeeh) ==
    LET alef_yaa(a, b) == a = <<"A", "o">> /\ b = <<"Y", "o">>
        yaa_waw == {<<"y", "o">>, <<"w", "o">>}
        alef == {<<"A">>, <<"A", "o">>}
        cur == current_qafeeh
        base == base_qafeeh
    IN  IF cur.rawee # base.rawee THEN <<rawee_differs>>
        ELSE IF cur.wasel # base.wasel
             THEN IF ~(alef_yaa(cur.wasel, base.wasel) \/ alef_yaa(base.wasel, cur.wasel))
                  THEN <<wasel_differs>>
                  ELSE <<>>
        ELSE (IF cur.ta2ses # <<>> /\ base.ta2ses = <<>> THEN <<sinad_ta2sees>>
              ELSE IF cur.ta2ses = <<>> /\ base.ta2ses # <<>> THEN <<needs_ta2sees>>
              ELSE <<>>)
             \o
             (IF cur.redf # <<>> /\ base.redf = <<>> THEN <<sinad_redf>>
              ELSE IF cur.redf = <<>> /\ base.redf # <<>> THEN <<needs_redf>>
              ELSE IF cur.redf # <<>> /\ base.redf # <<>>
                      /\ \/ cur.redf \in yaa_waw /\ base.redf \in alef
                         \/ cur.redf \in alef /\ base.redf \in yaa_waw
                   THEN <<redf_mixed>>
              ELSE <<>>)
             \o
             (IF cur.rawee # base.rawee THEN <<kharoog_differs>> ELSE <<>>)

\* lines 1377-1381: the loop from the 0-based index i; -1 when every verse
\* is 'empty'.
RECURSIVE FirstVerse(_, _)
FirstVerse(verses, i) ==
    IF i >= Len(verses) THEN -1
    ELSE IF At(verses, i) # empty THEN i
    ELSE FirstVerse(verses, i + 1)

(***************************************************************************)
(* The free-verse engine, _what_tafeela_poem_on and                        *)
(* _get_tafaeel_for_tafeela_poem.  A characteristic regex (a|b|...){n} is  *)
(* kept as its alternatives, in the order written, and its count n.        *)
(***************************************************************************)
Repeated(alternatives, count) == [alts |-> alternatives, count |-> count]

\* (--U-|-UU-|U-U-|UUU-|U-){5}
rajaz_feet == Repeated(<<<<"-", "-", "U", "-">>, <<"-", "U", "U", "-">>, <<"U", "-", "U", "-">>, <<"U", "U", "U", "-">>, <<"U", "-">>>>, 5)

\* (UU-|-UU|--){7}
khabab_feet == Repeated(<<<<"U", "U", "-">>, <<"-", "U", "U">>, <<"-", "-">>>>, 7)

\* (UU-U-|--U-){4}
kamel_feet == Repeated(<<<<"U", "U", "-", "U", "-">>, <<"-", "-", "U", "-">>>>, 4)

\* (-U--|UU--|UU-U){5}
ramal_feet == Repeated(<<<<"-", "U", "-", "-">>, <<"U", "U", "-", "-">>, <<"U", "U", "-", "U">>>>, 5)

\* (-U-|UU-){7}
mutadarak_feet == Repeated(<<<<"-", "U", "-">>, <<"U", "U", "-">>>>, 7)

\* (U-UU-|U---){4}
wafer_feet == Repeated(<<<<"U", "-", "U", "U", "-">>, <<"U", "-", "-", "-">>>>, 4)

\* (U--|U-U|U-){7}
mutakareb_feet == Repeated(<<<<"U", "-", "-">>, <<"U", "-", "U">>, <<"U", "-">>>>, 7)

\* (U-UU-|U---)
wafer_foot == Repeated(<<<<"U", "-", "U", "U", "-">>, <<"U", "-", "-", "-">>>>, 1)

Candidate(name, pattern) == [name |-> name, pattern |-> pattern]

\* lines 830-878: the dict tafeela_base for the opening of the skeleton, in
\* insertion order; <<>> stands for the else branch of lines 877-878.
tafeela_base(rokaz) ==
    IF rokaz = <<"U", "U", "U", "-">>
    THEN <<Candidate("rajaz", rajaz_feet), Candidate("khabab", khabab_feet)>>
    ELSE IF rokaz = <<"U", "U", "-", "U">>
    THEN <<Candidate("kamel", kamel_feet), Candidate("ramal", ramal_feet),
           Candidate("mutadarak", mutadarak_feet)>>
    ELSE IF rokaz = <<"U", "U", "-", "-">>
    THEN <<Candidate("ramal", ramal_feet)>>
    ELSE IF rokaz = <<"U", "-", "U", "U">>
    THEN <<Candidate("wafer", wafer_feet), Candidate("mutakareb", mutakareb_feet)>>
    ELSE IF rokaz = <<"U", "-", "U", "-">>
    THEN <<Candidate("rajaz", rajaz_feet), Candidate("mutakareb", mutakareb_feet)>>
    ELSE IF rokaz = <<"U", "-", "-", "U">>
    THEN <<Candidate("wafer", wafer_feet), Candidate("mutakareb", mutakareb_feet)>>
    ELSE IF rokaz = <<"U", "-", "-", "-">>
    THEN <<Candidate("wafer", wafer_foot)>>
    ELSE IF rokaz = <<"-", "U", "U", "-">>
    THEN <<Candidate("rajaz", rajaz_feet)>>
    ELSE IF rokaz = <<"-", "U", "-", "U">>
    THEN <<Candidate("mutadarak", mutadarak_feet)>>
    ELSE IF rokaz = <<"-", "U", "-", "-">>
    THEN <<Candidate("ramal", ramal_feet), Candidate("mutadarak", mutadarak_feet)>>
    ELSE IF rokaz = <<"-", "-", "U", "-">>
    THEN <<Candidate("kamel", kamel_feet), Candidate("rajaz", rajaz_feet),
           Candidate("mutadarak", mutadarak_feet)>>
    ELSE <<>>

\* The match of count more repetitions of the group from the 1-based place i
\* of s, as the regex engine finds it: the alternatives are tried in order
\* and the first that lets the rest match is taken.  feet are the texts the
\* repetitions matched.
RECURSIVE FeetAt(_, _, _, _)
RECURSIVE AlternativeAt(_, _, _, _, _)
FeetAt(alternatives, count, s, i) ==
    IF count = 0 THEN [ok |-> TRUE, feet |-> <<>>]
    ELSE AlternativeAt(alternatives, 1, count, s, i)

AlternativeAt(alternatives, k, count, s, i) ==
    IF k > Len(alternatives) THEN [ok |-> FALSE, feet |-> <<>>]
    ELSE IF IsPrefixAt(alternatives[k], s, i)
         THEN LET rest == FeetAt(alternatives, count - 1, s, i + Len(alternatives[k]))
              IN  IF rest.ok THEN [ok |-> TRUE, feet |-> <<alternatives[k]>> \o rest.feet]
                  ELSE AlternativeAt(alternatives, k + 1, count, s, i)
         ELSE AlternativeAt(alternatives, k + 1, count, s, i)

\* The matches re.findall walks through from the 1-based place i of s on:
\* leftmost first, none overlapping the one before it.
RECURSIVE MatchesFrom(_, _, _)
MatchesFrom(pattern, s, i) ==
    IF i > Len(s) THEN <<>>
    ELSE LET found == FeetAt(pattern.alts, pattern.count, s, i)
         IN  IF found.ok
             THEN <<found.feet>> \o MatchesFrom(pattern, s, i + Len(Join(found.feet)))
             ELSE MatchesFrom(pattern, s, i + 1)

\* A findall that lists every repetition of every match.
re_findall_every_foot(pattern, s) == Join(MatchesFrom(pattern, s, 1))

\* re.findall(pattern, s): one entry for each match, the text of its group,
\* which is what the last repetition of the group matched.
re_findall(pattern, s) ==
    LET matches == MatchesFrom(pattern, s, 1)
    IN  [k \in 1..Len(matches) |-> matches[k][Len(matches[k])]]

\* lines 889-899: the loop over tafeela_base from its k-th entry on.
RECURSIVE BestMeter(_, _, _, _, _)
BestMeter(base, k, test_rokaz, max_matches, best_meter) ==
    IF k > Len(base) THEN best_meter
    ELSE LET found == re_findall(base[k].pattern, test_rokaz)
             matches == Len(found)
         IN  IF matches > max_matches
             THEN BestMeter(base, k + 1, test_rokaz, matches,
                            IF base[k].name = "wafer"
                            THEN IF \E n \in 1..matches : found[n] = <<"U", "-", "U", "U", "-">>
                                 THEN "wafer" ELSE "hazaj"
                            ELSE base[k].name)
             ELSE BestMeter(base, k + 1, test_rokaz, max_matches, best_meter)

\* _what_tafeela_poem_on(rokaz)
what_tafeela_poem_on(old_rokaz) ==
    LET rokaz == IF Len(old_rokaz) >= 4 THEN Slice(old_rokaz, 0, 4) ELSE old_rokaz
        base == tafeela_base(rokaz)
        test_rokaz == IF Len(old_rokaz) >= 21 THEN Slice(old_rokaz, 0, 21)
                      ELSE old_rokaz
    IN  IF base = <<>> THEN "unknown"
        ELSE BestMeter(base, 1, test_rokaz, 0, "unknown")

\* The foot names of lines 918-957 that the segmenter of classical verse
\* does not use.
mutafa3ilun == <<"m", "u", "t", "a", "f", "a", "A", "o", "E", "i", "l", "u", "n", "o">>

muta3ilun == <<"m", "u", "t", "a", "E", "i", "l", "u", "n", "o">>

unnamed_foot == <<"?", "?", "?", "?">>

\* One pass of a while loop of lines 915-962: the foot, its name and the
\* number of chars it takes.
Foot(tafeela, name, word_len) == [tafeela |-> tafeela, name |-> name, word_len |-> word_len]

\* A kamel loop that gives a symbol outside its two feet the name of a rajaz
\* foot.
KamelFootAlwaysNamed(rokaz) ==
    IF IsPrefixAt(<<"U", "U", "-", "U", "-">>, rokaz, 1) THEN Foot(<<"U", "U", "-", "U", "-">>, mutafa3ilun, 14)
    ELSE IF IsPrefixAt(<<"-", "-", "U", "-">>, rokaz, 1) THEN Foot(<<"-", "-", "U", "-">>, mustaf3ilun, 14)
    ELSE Foot(<<rokaz[1]>>, mutaf3ilun, 2)

\* lines 916-935
KamelFoot(rokaz) ==
    IF IsPrefixAt(<<"U", "U", "-", "U", "-">>, rokaz, 1) THEN Foot(<<"U", "U", "-", "U", "-">>, mutafa3ilun, 14)
    ELSE IF IsPrefixAt(<<"-", "-", "U", "-">>, rokaz, 1) THEN Foot(<<"-", "-", "U", "-">>, mustaf3ilun, 14)
    ELSE Foot(<<rokaz[1]>>, unnamed_foot, 2)

\* A rajaz loop whose placeholder foot takes two symbols of the skeleton.
RajazFootWidePlaceholder(rokaz) ==
    IF IsPrefixAt(<<"-", "-", "U", "-">>, rokaz, 1) THEN Foot(<<"-", "-", "U", "-">>, mustaf3ilun, 14)
    ELSE IF IsPrefixAt(<<"U", "-", "U", "-">>, rokaz, 1) THEN Foot(<<"U", "-", "U", "-">>, mutaf3ilun, 12)
    ELSE IF IsPrefixAt(<<"-", "U", "U", "-">>, rokaz, 1) THEN Foot(<<"-", "U", "U", "-">>, musta3ilun, 12)
    ELSE IF IsPrefixAt(<<"U", "U", "U", "-">>, rokaz, 1) THEN Foot(<<"U", "U", "U", "-">>, muta3ilun, 10)
    ELSE Foot(Slice(rokaz, 0, 2), unnamed_foot, 2)

\* lines 939-962
RajazFoot(rokaz) ==
    IF IsPrefixAt(<<"-", "-", "U", "-">>, rokaz, 1) THEN Foot(<<"-", "-", "U", "-">>, mustaf3ilun, 14)
    ELSE IF IsPrefixAt(<<"U", "-", "U", "-">>, rokaz, 1) THEN Foot(<<"U", "-", "U", "-">>, mutaf3ilun, 12)
    ELSE IF IsPrefixAt(<<"-", "U", "U", "-">>, rokaz, 1) THEN Foot(<<"-", "U", "U", "-">>, musta3ilun, 12)
    ELSE IF IsPrefixAt(<<"U", "U", "U", "-">>, rokaz, 1) THEN Foot(<<"U", "U", "U", "-">>, muta3ilun, 10)
    ELSE Foot(<<rokaz[1]>>, unnamed_foot, 2)

\* lines 915-962: the while loop of the meter, from what is left of rokaz and
\* the 0-based chars_index on.  No other meter has a loop.
RECURSIVE FeetOfPoem(_, _, _, _)
FeetOfPoem(ba7er_name, rokaz, chars, chars_index) ==
    IF rokaz = <<>> \/ ba7er_name \notin {"kamel", "rajaz"} THEN <<>>
    ELSE LET foot == IF ba7er_name = "kamel" THEN KamelFoot(rokaz) ELSE RajazFoot(rokaz)
             word == Slice(chars, chars_index, chars_index + foot.word_len)
         IN  <<[tafeela |-> foot.tafeela, name |-> foot.name, word |-> word]>>
                 \o FeetOfPoem(ba7er_name, Slice(rokaz, Len(foot.tafeela), Len(rokaz)),
                               chars, chars_index + foot.word_len)

\* lines 905-906: the str the function returns for the meter 'unknown'.
UnknownPoem == [kind |-> "unknown"]

\* _get_tafaeel_for_tafeela_poem(ba7er_name, rokaz, chars)
get_tafaeel_for_tafeela_poem(ba7er_name, rokaz, chars) ==
    IF ba7er_name = "unknown" THEN UnknownPoem
    ELSE LET feet == FeetOfPoem(ba7er_name, rokaz, chars, 0)
         IN  [kind |-> "feet",
              ba7er |-> ba7er_name,
              tafa3eel |-> [k \in 1..Len(feet) |-> feet[k].tafeela],
              names |-> [k \in 1..Len(feet) |-> feet[k].name],
              words |-> [k \in 1..Len(feet) |->
                            ReplaceSym(feet[k].word, "Y", <<"Y", " ">>)]]

(***************************************************************************)
(* The wizard validator: _compare_with_tafeela and the walk of             *)
(* wizard_analysis_classical and wizard_analysis_free_verse.  A message of *)
(* _compare_with_tafeela is kept as what it says: the number of the        *)
(* alternative (state_no), its name, the kind of the advice and the number *)
(* of the letter it names (the source writes both numbers as Arabic        *)
(* ordinals).                                                              *)
(***************************************************************************)
\* lines 1189-1216 and 1223-1250: the loop over zip(current, pattern) from the
\* 0-based j on, with char_pos as it stands; <<>> when it ends with no
\* message.
RECURSIVE Mismatch(_, _, _, _)
Mismatch(current, pattern, j, char_pos) ==
    IF j >= Min(Len(current), Len(pattern)) THEN <<>>
    ELSE LET curr_char == At(current, j)
             pos == IF curr_char = "U" THEN char_pos + 1
                    ELSE IF curr_char = "-" THEN char_pos + 2 ELSE char_pos
         IN  IF curr_char = At(pattern, j) THEN Mismatch(current, pattern, j + 1, pos)
             ELSE IF curr_char = "U" THEN <<[kind |-> "make quiescent", char |-> pos + 1]>>
             ELSE IF curr_char = "-" THEN <<[kind |-> "make moving", char |-> pos]>>
             ELSE IF j = Min(Len(current), Len(pattern)) - 1
                  THEN <<[kind |-> IF Len(pattern) >= Len(current) THEN "shorter"
                                   ELSE "longer",
                          char |-> 0]>>
                  ELSE Mismatch(current, pattern, j + 1, pos)

\* _compare_with_tafeela(current, expected_patterns, pattern_names)
compare_with_tafeela(current, expected_patterns, pattern_names) ==
    Join([i \in 1..Min(Len(expected_patterns), Len(pattern_names)) |->
             LET found == Mismatch(current, expected_patterns[i], 0, 0)
             IN  IF found = <<>> THEN <<>>
                 ELSE <<[state_no |-> i, name |-> pattern_names[i],
                         kind |-> found[1].kind, char |-> found[1].char]>>])

\* lines 1467-1472 and 1562-1567: the name of the first alternative equal to
\* current_status, '' when there is none.
NameOf(current_status, patterns, names) ==
    LET found == {k \in 1..Len(patterns) : patterns[k] = current_status}
    IN  IF found = {} THEN <<>>
        ELSE names[CHOOSE k \in found : \A other \in found : k <= other]

\* lines 1476 and 1571
CharLength(current_status) ==
    2 * (Len(current_status)
         + Cardinality({k \in 1..Len(current_status) : current_status[k] = "-"}))

\* lines 1464-1465 and 1474: the 1-based place of the first alternative that
\* is the opening of rokaz, 0 when there is none.
FirstAlternative(patterns, rokaz) ==
    LET found == {j \in 1..Len(patterns) :
                     patterns[j] = Slice(rokaz, 0, Len(patterns[j]))}
    IN  IF found = {} THEN 0 ELSE CHOOSE j \in found : \A other \in found : j <= other

\* lines 1462-1520 and 1557-1615: one foot of the walk, for the alternatives
\* of the foot: the report, and chars and rokaz after it.
Foot_report(rokaz, chars, patterns, names) ==
    LET j == FirstAlternative(patterns, rokaz)
        taken == IF j > 0 THEN patterns[j] ELSE patterns[1]
        current_status == Slice(rokaz, 0, Len(taken))
        char_length == CharLength(current_status)
        current_chars ==
            ReplaceSym(ReplaceSym(Slice(chars, 0, char_length), "Y", <<"Y", " ">>),
                       "p", <<"p", " ">>)
        current_name == NameOf(current_status, patterns, names)
    IN  [report |-> IF j > 0
                    THEN [status |-> "ok", taf3eela |-> current_name,
                          chars |-> current_chars]
                    ELSE [status |-> "err", taf3eela |-> current_name,
                          chars |-> current_chars,
                          errs |-> compare_with_tafeela(current_status, patterns, names)],
         chars |-> Slice(chars, char_length, Len(chars)),
         rokaz |-> Slice(rokaz, Len(taken), Len(rokaz))]

\* A pass of the loop of the classical wizard that goes on after an error.
ClassicalGroupNoBreak(call) ==
    LET foot == Foot_report(call.rokaz, call.chars, At(call.rule_patterns, call.i),
                            At(call.rule_names, call.i))
    IN  [call EXCEPT !.results = Append(@, foot.report), !.chars = foot.chars,
                     !.rokaz = foot.rokaz, !.i = @ + 1]

\* lines 1461-1521: the pass of the for loop for the group i (0-based); the
\* break of line 1521 ends the walk.
ClassicalGroup(call) ==
    LET foot == Foot_report(call.rokaz, call.chars, At(call.rule_patterns, call.i),
                            At(call.rule_names, call.i))
    IN  [call EXCEPT !.results = Append(@, foot.report), !.chars = foot.chars,
                     !.rokaz = foot.rokaz, !.i = @ + 1,
                     !.pc = IF foot.report.status = "ok" THEN "walk" ELSE "returned"]

\* lines 1557-1616: one pass of the while loop; the walk goes on after an
\* error.
FreeFoot(call) ==
    LET foot == Foot_report(call.rokaz, call.chars, call.rule_patterns, call.rule_names)
    IN  [call EXCEPT !.results = Append(@, foot.report), !.chars = foot.chars,
                     !.rokaz = foot.rokaz]

(***************************************************************************)
(* State.  Every public method is a pure function of its arguments         *)
(* (ArabicPoetryAnalyzer has no fields), so the state is the activation    *)
(* record of the call under way: its arguments, its locals and its         *)
(* position pc.  A record with pc = "idle" is a call that is not made.     *)
(*   seg    _get_ba7er and _get_tafa3eel called on a skeleton              *)
(*   esh    _do_eshbaa3_shater called on a text                            *)
(*   verse  analyze_classical_verse called on a text                       *)
(*   rhyme  analyze_rhyme_patterns called on a list of verses              *)
(*   taf    _what_tafeela_poem_on and _get_tafaeel_for_tafeela_poem called *)
(*          on a skeleton                                                  *)
(*   free   analyze_free_verse called on a text                            *)
(*   wiz    wizard_analysis_classical or wizard_analysis_free_verse called *)
(*          on a text and its expected patterns                            *)
(*   txt    one of the text functions (_str_to_chars, _clean_str,          *)
(*          _get_chars_only, _get_rokaz_khoutayt, _handle_tanween_shaddeh) *)
(*          called on a str                                                *)
(***************************************************************************)
VARIABLES seg, esh, verse, rhyme, taf, free, wiz, txt

vars == <<seg, esh, verse, rhyme, taf, free, wiz, txt>>

Idle == [pc |-> "idle"]

(***************************************************************************)
(* _get_ba7er and then _get_tafa3eel called on every skeleton up to        *)
(* MaxRokaz symbols, with chars holding the skeleton's letters.            *)
(***************************************************************************)
MaxRokaz == 14

Skeletons == UNION {[1..n -> {"U", "-"}] : n \in 0..MaxRokaz}

\* The letters a skeleton stands for: one letter for U, two for -.
LettersFor(rokaz) ==
    Join([k \in 1..Len(rokaz) |-> IF rokaz[k] = "U" THEN <<"k">> ELSE <<"l", "A">>])

InitMeter ==
    /\ seg \in {[pc |-> "start", rokaz |-> r, chars |-> LettersFor(r),
                 ba7er_name |-> "", tafa3eel |-> <<>>] : r \in Skeletons}
    /\ esh = Idle
    /\ verse = Idle
    /\ rhyme = Idle
    /\ taf = Idle
    /\ free = Idle
    /\ wiz = Idle
    /\ txt = Idle

\* _get_ba7er(rokaz), lines 667-675
GetBa7er ==
    /\ seg.pc = "start"
    /\ seg' = [seg EXCEPT !.pc = "matched", !.ba7er_name = get_ba7er(seg.rokaz)]
    /\ UNCHANGED <<esh, verse, rhyme, taf, free, wiz, txt>>

\* _get_tafa3eel(rokaz, chars, ba7er_name), lines 749-822, for a meter the
\* matcher returned
GetTafa3eel ==
    /\ seg.pc = "matched"
    /\ seg.ba7er_name # "unknown"
    /\ seg' = [seg EXCEPT !.pc = "segmented",
                          !.tafa3eel = get_tafa3eel(seg.rokaz, seg.chars, seg.ba7er_name)]
    /\ UNCHANGED <<esh, verse, rhyme, taf, free, wiz, txt>>

NextMeter == GetBa7er \/ GetTafa3eel

SpecMeter == InitMeter /\ [][NextMeter]_vars

(***************************************************************************)
(* _do_eshbaa3_shater called on texts of up to MaxWords words, the words   *)
(* joined by '#': la-hu, bi-hi and hu-mu end in a pronoun the search       *)
(* lengthens, qaala does not.                                              *)
(***************************************************************************)
MaxWords == 3

EshWords ==
    {<<"l", "a", "h", "u">>, <<"b", "i", "h", "i">>, <<"h", "u", "m", "u">>,
     <<"q", "A", "l", "a">>}

RECURSIVE JoinWords(_)
JoinWords(words) ==
    IF words = <<>> THEN <<>>
    ELSE IF Len(words) = 1 THEN words[1]
         ELSE words[1] \o <<"#">> \o JoinWords(Tail(words))

EshTexts ==
    {JoinWords(words) : words \in UNION {[1..n -> EshWords] : n \in 0..MaxWords}}

InitEshbaa3 ==
    /\ esh \in {[pc |-> "start", text |-> x, parts |-> <<>>, positions |-> <<>>,
                 truth_table |-> <<>>, row |-> 0, result |-> <<>>] : x \in EshTexts}
    /\ seg = Idle
    /\ verse = Idle
    /\ rhyme = Idle
    /\ taf = Idle
    /\ free = Idle
    /\ wiz = Idle
    /\ txt = Idle

\* lines 693-701
SplitPronouns ==
    /\ esh.pc = "start"
    /\ LET parts == SplitFrom(Fence(esh.text), 1, 1)
       IN  esh' = [esh EXCEPT !.pc = "split", !.parts = parts,
                              !.positions = PronounPositions(parts, 1)]
    /\ UNCHANGED <<seg, verse, rhyme, taf, free, wiz, txt>>

\* lines 703-706
BuildTruthTable ==
    /\ esh.pc = "split"
    /\ esh' = [esh EXCEPT !.pc = "loop", !.row = 1,
                          !.truth_table = TruthTableFor(esh.positions)]
    /\ UNCHANGED <<seg, verse, rhyme, taf, free, wiz, txt>>

\* lines 708-745: the body of the loop for the next row of truth_table
TryState ==
    /\ esh.pc = "loop"
    /\ esh.row <= Len(esh.truth_table)
    /\ LET tried == TryRow(esh.parts, esh.positions, esh.truth_table, esh.row)
       IN  esh' = IF tried.outcome = "IndexError" THEN [esh EXCEPT !.pc = "IndexError"]
                  ELSE IF tried.outcome = "returned"
                       THEN [esh EXCEPT !.pc = "returned", !.result = tried.result]
                       ELSE [esh EXCEPT !.row = @ + 1]
    /\ UNCHANGED <<seg, verse, rhyme, taf, free, wiz, txt>>

\* line 747
ReturnUnknownAlso ==
    /\ esh.pc = "loop"
    /\ esh.row > Len(esh.truth_table)
    /\ esh' = [esh EXCEPT !.pc = "unknownAlso"]
    /\ UNCHANGED <<seg, verse, rhyme, taf, free, wiz, txt>>

NextEshbaa3 == SplitPronouns \/ BuildTruthTable \/ TryState \/ ReturnUnknownAlso

SpecEshbaa3 == InitEshbaa3 /\ [][NextEshbaa3]_vars

(***************************************************************************)
(* analyze_classical_verse called on a text, for both values of is_ajez:   *)
(* every text of up to MaxText symbols of VerseSymbols, and the verses of  *)
(* VerseLexicon.  round counts the runs of the four normaliser passes: a   *)
(* caller may hand the normalised text to the passes again.                *)
(***************************************************************************)
MaxText == 3

VerseSymbols == {"b", "a", "A", "K", " "}

\* qifaa nabki min dhikraa habiibin wa-manzili
qifa_nabki ==
    <<"q", "i", "f", "a", "A", " ", "n", "a", "b", "o", "k", "i", " ",
      "m", "i", "n", "o", " ", "V", "i", "k", "o", "r", "a", "Y", " ",
      "H", "a", "b", "i", "y", "b", "K", " ",
      "w", "a", "m", "a", "n", "o", "z", "i", "l", "i">>

VerseLexicon ==
    {qifa_nabki,
     <<"l", "a", "h", "u", " ", "b", "i", "h", "i">>,
     <<"A", "l", "G", "a", "m", "o", "s", "u">>}

VerseTexts ==
    VerseLexicon \cup UNION {[1..n -> VerseSymbols] : n \in 0..MaxText}

InitVerse ==
    /\ verse \in {[pc |-> "special", text |-> x, is_ajez |-> aj, round |-> 1,
                   processed_text |-> <<>>, old_text |-> <<>>, first |-> <<>>,
                   shater |-> <<>>, arrodi |-> <<>>, chars |-> <<>>,
                   harakat |-> <<>>, rokaz |-> <<>>, ba7er_name |-> "",
                   tafa3eel |-> <<>>] : x \in VerseTexts, aj \in BOOLEAN}
    /\ seg = Idle
    /\ esh = Idle
    /\ rhyme = Idle
    /\ taf = Idle
    /\ free = Idle
    /\ wiz = Idle
    /\ txt = Idle

\* line 1275
SpecialCases ==
    /\ verse.pc = "special"
    /\ verse' = [verse EXCEPT !.pc = "lunar",
                              !.processed_text = handle_special_cases(verse.text)]
    /\ UNCHANGED <<seg, esh, rhyme, taf, free, wiz, txt>>

\* line 1276
LunarSolarLam ==
    /\ verse.pc = "lunar"
    /\ verse' = [verse EXCEPT !.pc = "tanween",
                              !.processed_text = handle_lunar_solar_lam(@)]
    /\ UNCHANGED <<seg, esh, rhyme, taf, free, wiz, txt>>

\* line 1277
TanweenShaddeh ==
    /\ verse.pc = "tanween"
    /\ verse' = [verse EXCEPT !.pc = "wasl",
                              !.processed_text = handle_tanween_shaddeh(@, verse.is_ajez)]
    /\ UNCHANGED <<seg, esh, rhyme, taf, free, wiz, txt>>

\* lines 1278-1279
HamzatWasl ==
    /\ verse.pc = "wasl"
    /\ LET out == handle_hamzat_wasl(verse.processed_text)
       IN  verse' = [verse EXCEPT !.pc = "extract", !.processed_text = out,
                                  !.old_text = out]
    /\ UNCHANGED <<seg, esh, rhyme, taf, free, wiz, txt>>

\* The normalised text handed to the four passes of lines 1275-1278 again.
Renormalise ==
    /\ verse.pc = "extract"
    /\ verse.round = 1
    /\ verse' = [verse EXCEPT !.pc = "special", !.round = 2,
                              !.first = verse.old_text, !.text = verse.old_text]
    /\ UNCHANGED <<seg, esh, rhyme, taf, free, wiz, txt>>

\* lines 1281-1289
ExtractProsody ==
    /\ verse.pc = "extract"
    /\ LET arrodi_written == Without(verse.processed_text, {"#", " "})
           harakat == get_harakat_only(arrodi_written)
           rokaz == get_rokaz_khoutayt(harakat)
       IN  verse' = [verse EXCEPT !.pc = "feet",
                                  !.processed_text = arrodi_written,
                                  !.arrodi = arrodi_written,
                                  !.chars = get_chars_only(arrodi_written),
                                  !.harakat = harakat,
                                  !.rokaz = rokaz,
                                  !.ba7er_name = get_ba7er(rokaz)]
    /\ UNCHANGED <<seg, esh, rhyme, taf, free, wiz, txt>>

\* lines 1295-1297
DisplayFeet(tafa3eel) ==
    [i \in 1..Len(tafa3eel) |->
        ReplaceSym(ReplaceSym(tafa3eel[i], "Y", <<"Y", " ">>), "p", <<"p", " ">>)]

\* A result for 'unknownAlso' that takes its chars from the text that still
\* has its word boundaries.
UnknownAlsoOfOldText(call) ==
    [call EXCEPT !.pc = "returned", !.shater = call.processed_text,
                 !.chars = get_chars_only(call.old_text),
                 !.ba7er_name = "unknown", !.tafa3eel = <<>>]

\* lines 1311-1320: the result when the search returns 'unknownAlso'; arrodi,
\* chars, harakat and rokaz are those of lines 1285-1288.
UnknownAlso(call) ==
    [call EXCEPT !.pc = "returned", !.shater = call.processed_text,
                 !.ba7er_name = "unknown", !.tafa3eel = <<>>]

\* lines 1291-1322
DetermineFeet ==
    /\ verse.pc = "feet"
    /\ verse' =
        IF verse.ba7er_name # "unknown"
        THEN [verse EXCEPT
                 !.pc = "returned", !.shater = verse.processed_text,
                 !.tafa3eel = DisplayFeet(get_tafa3eel(verse.rokaz, verse.chars,
                                                       verse.ba7er_name))]
        ELSE LET result == do_eshbaa3_shater(verse.old_text)
             IN  IF result.outcome = "IndexError"
                 THEN [verse EXCEPT !.pc = "IndexError"]
                 ELSE IF result.outcome = "unknownAlso"
                      THEN UnknownAlso(verse)
                      ELSE [verse EXCEPT
                               !.pc = "returned",
                               !.shater = result.result.shater,
                               !.arrodi = result.result.arrodi,
                               !.chars = result.result.chars,
                               !.harakat = result.result.harakat,
                               !.rokaz = result.result.rokaz,
                               !.ba7er_name = result.result.ba7er_name,
                               !.tafa3eel = result.result.tafa3eel]
    /\ UNCHANGED <<seg, esh, rhyme, taf, free, wiz, txt>>

NextVerse ==
    \/ SpecialCases
    \/ LunarSolarLam
    \/ TanweenShaddeh
    \/ HamzatWasl
    \/ ExtractProsody
    \/ DetermineFeet

SpecVerse == InitVerse /\ [][NextVerse]_vars

NextTwice ==
    \/ SpecialCases
    \/ LunarSolarLam
    \/ TanweenShaddeh
    \/ HamzatWasl
    \/ Renormalise

SpecTwice == InitVerse /\ [][NextTwice]_vars

(***************************************************************************)
(* analyze_rhyme_patterns called on every list of up to MaxVerses verses   *)
(* of RhymeTexts: the marker 'empty', sa7aru, baab, baal, kitaab and       *)
(* kaatib.                                                                 *)
(***************************************************************************)
MaxVerses == 3

RhymeTexts ==
    {empty,
     <<"s", "a", "H", "a", "r", "u">>,
     <<"b", "A", "b">>,
     <<"b", "A", "l">>,
     <<"k", "i", "t", "a", "A", "b", "o">>,
     <<"k", "a", "A", "t", "i", "b", "o">>}

InitRhyme ==
    /\ rhyme \in {[pc |-> "start", verses |-> v, results |-> <<>>,
                   beginning_index |-> -1, i |-> 0, base_qafeeh |-> Raised,
                   current_ajez |-> <<>>] :
                     v \in UNION {[1..n -> RhymeTexts] : n \in 0..MaxVerses}}
    /\ seg = Idle
    /\ esh = Idle
    /\ verse = Idle
    /\ taf = Idle
    /\ free = Idle
    /\ wiz = Idle
    /\ txt = Idle

\* lines 1373-1387: the search for the first verse that is not 'empty', and
\* the call of _analyse_qafeeh on it
FindBaseline ==
    /\ rhyme.pc = "start"
    /\ LET first == FirstVerse(rhyme.verses, 0)
       IN  rhyme' =
               IF first = -1
               THEN [rhyme EXCEPT !.pc = "emptyAll",
                                  !.results = [k \in 1..Len(rhyme.verses) |-> EmptyEntry]]
               ELSE [rhyme EXCEPT !.pc = "special", !.beginning_index = first,
                                  !.i = first,
                                  !.current_ajez = At(rhyme.verses, first),
                                  !.results = [k \in 1..first |-> EmptyEntry]]
    /\ UNCHANGED <<seg, esh, verse, taf, free, wiz, txt>>

\* line 982
QafeehSpecialCases ==
    /\ rhyme.pc = "special"
    /\ rhyme' = [rhyme EXCEPT !.pc = "lunar",
                              !.current_ajez = handle_special_cases(@)]
    /\ UNCHANGED <<seg, esh, verse, taf, free, wiz, txt>>

\* line 983
QafeehLunarSolarLam ==
    /\ rhyme.pc = "lunar"
    /\ rhyme' = [rhyme EXCEPT !.pc = "tanween",
                              !.current_ajez = handle_lunar_solar_lam(@)]
    /\ UNCHANGED <<seg, esh, verse, taf, free, wiz, txt>>

\* line 984
QafeehTanweenShaddeh ==
    /\ rhyme.pc = "tanween"
    /\ rhyme' = [rhyme EXCEPT !.pc = "wasl",
                              !.current_ajez = handle_tanween_shaddeh(@, TRUE)]
    /\ UNCHANGED <<seg, esh, verse, taf, free, wiz, txt>>

\* line 985
QafeehHamzatWasl ==
    /\ rhyme.pc = "wasl"
    /\ rhyme' = [rhyme EXCEPT !.pc = "qafeeh",
                              !.current_ajez = handle_hamzat_wasl(@)]
    /\ UNCHANGED <<seg, esh, verse, taf, free, wiz, txt>>

\* lines 986-1158, and what the caller does with the analysis: lines
\* 1387-1388 for the baseline, lines 1393-1425 for a later verse
AnalyseQafeeh ==
    /\ rhyme.pc = "qafeeh"
    /\ LET qafeeh == QafeehOf(rhyme.current_ajez)
       IN  rhyme' =
               IF qafeeh.raised THEN [rhyme EXCEPT !.pc = "IndexError"]
               ELSE IF rhyme.i = rhyme.beginning_index
                    THEN [rhyme EXCEPT !.pc = "loop", !.i = @ + 1,
                                       !.base_qafeeh = qafeeh,
                                       !.results = Append(@, Entry(qafeeh, None))]
                    ELSE [rhyme EXCEPT
                             !.pc = "loop", !.i = @ + 1,
                             !.results =
                                 Append(@, Entry(qafeeh,
                                                 Errors(qafeeh, rhyme.base_qafeeh)))]
    /\ UNCHANGED <<seg, esh, verse, taf, free, wiz, txt>>

\* lines 1391-1393 and 1426-1427: the next verse is analysed, or is 'empty'
NextVerseOfPoem ==
    /\ rhyme.pc = "loop"
    /\ rhyme.i < Len(rhyme.verses)
    /\ rhyme' =
           IF At(rhyme.verses, rhyme.i) # empty
           THEN [rhyme EXCEPT !.pc = "special",
                              !.current_ajez = At(rhyme.verses, rhyme.i)]
           ELSE [rhyme EXCEPT !.i = @ + 1, !.results = Append(@, EmptyEntry)]
    /\ UNCHANGED <<seg, esh, verse, taf, free, wiz, txt>>

\* line 1429
ReturnResults ==
    /\ rhyme.pc = "loop"
    /\ rhyme.i >= Len(rhyme.verses)
    /\ rhyme' = [rhyme EXCEPT !.pc = "returned"]
    /\ UNCHANGED <<seg, esh, verse, taf, free, wiz, txt>>

NextRhyme ==
    \/ FindBaseline
    \/ QafeehSpecialCases
    \/ QafeehLunarSolarLam
    \/ QafeehTanweenShaddeh
    \/ QafeehHamzatWasl
    \/ AnalyseQafeeh
    \/ NextVerseOfPoem
    \/ ReturnResults

SpecRhyme == InitRhyme /\ [][NextRhyme]_vars

(***************************************************************************)
(* _what_tafeela_poem_on called on a skeleton, and                         *)
(* _get_tafaeel_for_tafeela_poem called on a meter name, a skeleton and    *)
(* its letters.  The skeletons are every string of up to MaxSkeleton       *)
(* symbols and, to reach the 21 symbols the score is counted in, every     *)
(* string of up to MaxFeet of the feet of PoemFeet.                        *)
(***************************************************************************)
MaxSkeleton == 10

MaxFeet == 5

ShortSkeletons == UNION {[1..n -> {"U", "-"}] : n \in 0..MaxSkeleton}

PoemFeet == {<<"U", "-", "U", "U", "-">>, <<"U", "-", "-", "-">>, <<"U", "-", "-">>, <<"U", "-", "U">>}

FootSkeletons == {Join(feet) : feet \in UNION {[1..n -> PoemFeet] : n \in 0..MaxFeet}}

\* The names _what_tafeela_poem_on returns.
PoemMeters ==
    {"rajaz", "khabab", "kamel", "ramal", "mutadarak", "wafer", "hazaj",
     "mutakareb", "unknown"}

InitTafeela ==
    /\ taf \in {[pc |-> "what", rokaz |-> r, chars |-> <<>>, ba7er_name |-> "",
                 result |-> UnknownPoem] : r \in ShortSkeletons \cup FootSkeletons}
               \cup
               {[pc |-> "feet", rokaz |-> r, chars |-> LettersFor(r), ba7er_name |-> b,
                 result |-> UnknownPoem] : r \in ShortSkeletons, b \in PoemMeters}
    /\ seg = Idle
    /\ esh = Idle
    /\ verse = Idle
    /\ rhyme = Idle
    /\ free = Idle
    /\ wiz = Idle
    /\ txt = Idle

\* _what_tafeela_poem_on(rokaz)
WhatTafeelaPoemOn ==
    /\ taf.pc = "what"
    /\ taf' = [taf EXCEPT !.pc = "named",
                          !.ba7er_name = what_tafeela_poem_on(taf.rokaz)]
    /\ UNCHANGED <<seg, esh, verse, rhyme, free, wiz, txt>>

\* _get_tafaeel_for_tafeela_poem(ba7er_name, rokaz, chars)
GetTafaeelForTafeelaPoem ==
    /\ taf.pc = "feet"
    /\ taf' = [taf EXCEPT !.pc = "segmented",
                          !.result = get_tafaeel_for_tafeela_poem(
                                         taf.ba7er_name, taf.rokaz, taf.chars)]
    /\ UNCHANGED <<seg, esh, verse, rhyme, free, wiz, txt>>

NextTafeela == WhatTafeelaPoemOn \/ GetTafaeelForTafeelaPoem

SpecTafeela == InitTafeela /\ [][NextTafeela]_vars

(***************************************************************************)
(* The while loops of _get_tafaeel_for_tafeela_poem, pass by pass, for the *)
(* meters kamel and rajaz and every skeleton of up to MaxSkeleton symbols. *)
(* rokaz is the local the loop shortens, arg_rokaz its value at the call.  *)
(* The loop is sequential code, so a pass that can run does run: weak      *)
(* fairness of the next step.                                              *)
(***************************************************************************)
InitLoop ==
    /\ taf \in {[pc |-> "loop", ba7er_name |-> b, arg_rokaz |-> r, rokaz |-> r,
                 chars |-> LettersFor(r), chars_index |-> 0,
                 result_tafa3eel |-> <<>>, result_names |-> <<>>,
                 result_words |-> <<>>, result |-> UnknownPoem] :
                   r \in ShortSkeletons, b \in {"kamel", "rajaz"}}
    /\ seg = Idle
    /\ esh = Idle
    /\ verse = Idle
    /\ rhyme = Idle
    /\ free = Idle
    /\ wiz = Idle
    /\ txt = Idle

\* lines 915-935 and 938-962: one pass of the while loop
LoopPass ==
    /\ taf.pc = "loop"
    /\ taf.rokaz # <<>>
    /\ LET foot == IF taf.ba7er_name = "kamel" THEN KamelFoot(taf.rokaz)
                   ELSE RajazFoot(taf.rokaz)
       IN  taf' = [taf EXCEPT
                      !.result_tafa3eel = Append(@, foot.tafeela),
                      !.result_names = Append(@, foot.name),
                      !.result_words =
                          Append(@, Slice(taf.chars, taf.chars_index,
                                          taf.chars_index + foot.word_len)),
                      !.chars_index = @ + foot.word_len,
                      !.rokaz = Slice(@, Len(foot.tafeela), Len(@))]
    /\ UNCHANGED <<seg, esh, verse, rhyme, free, wiz, txt>>

\* lines 915 and 938, the loop left, and lines 967-975
LoopReturn ==
    /\ taf.pc = "loop"
    /\ taf.rokaz = <<>>
    /\ taf' = [taf EXCEPT
                  !.pc = "segmented",
                  !.result = [kind |-> "feet",
                              ba7er |-> taf.ba7er_name,
                              tafa3eel |-> taf.result_tafa3eel,
                              names |-> taf.result_names,
                              words |-> [k \in 1..Len(taf.result_words) |->
                                            ReplaceSym(taf.result_words[k], "Y",
                                                       <<"Y", " ">>)]]]
    /\ UNCHANGED <<seg, esh, verse, rhyme, free, wiz, txt>>

NextLoop == LoopPass \/ LoopReturn

SpecLoop == InitLoop /\ [][NextLoop]_vars /\ WF_vars(NextLoop)

(***************************************************************************)
(* analyze_free_verse called on a text: the texts of VerseTexts and a poem *)
(* of two lines.  "nl" is the line feed.                                   *)
(***************************************************************************)
\* The symbols of the model that \s matches.
whitespace == {" ", "nl"}

\* re.sub(r'\s+', '#', text)
RECURSIVE SubWhitespace(_)
SubWhitespace(text) ==
    IF text = <<>> THEN <<>>
    ELSE IF Head(text) \notin whitespace THEN <<Head(text)>> \o SubWhitespace(Tail(text))
         ELSE IF Len(text) > 1 /\ text[2] \in whitespace THEN SubWhitespace(Tail(text))
              ELSE <<"#">> \o SubWhitespace(Tail(text))

\* lines 1357-1359: the dict returned for a poem whose meter is 'unknown'.
PoemErr == [kind |-> "poemErr"]

\* lahu, a line feed, bihi
two_lines == <<"l", "a", "h", "u", "nl", "b", "i", "h", "i">>

FreeTexts == VerseTexts \cup {two_lines}

InitFree ==
    /\ free \in {[pc |-> "fence", text |-> x, processed_text |-> <<>>,
                  arrodi_written |-> <<>>, chars |-> <<>>, harakat |-> <<>>,
                  rokaz |-> <<>>, ba7er_name |-> "", result |-> PoemErr] :
                    x \in FreeTexts}
    /\ seg = Idle
    /\ esh = Idle
    /\ verse = Idle
    /\ rhyme = Idle
    /\ taf = Idle
    /\ wiz = Idle
    /\ txt = Idle

\* lines 1335-1338: after line 1336 the text has no line feed and no carriage
\* return, so lines 1337-1338 change nothing.
FenceText ==
    /\ free.pc = "fence"
    /\ free' = [free EXCEPT !.pc = "special",
                            !.text = SubWhitespace(Fence(free.text))]
    /\ UNCHANGED <<seg, esh, verse, rhyme, taf, wiz, txt>>

\* line 1340
FreeSpecialCases ==
    /\ free.pc = "special"
    /\ free' = [free EXCEPT !.pc = "lunar",
                            !.processed_text = handle_special_cases(free.text)]
    /\ UNCHANGED <<seg, esh, verse, rhyme, taf, wiz, txt>>

\* line 1341
FreeLunarSolarLam ==
    /\ free.pc = "lunar"
    /\ free' = [free EXCEPT !.pc = "tanween",
                            !.processed_text = handle_lunar_solar_lam(@)]
    /\ UNCHANGED <<seg, esh, verse, rhyme, taf, wiz, txt>>

\* line 1342
FreeTanweenShaddeh ==
    /\ free.pc = "tanween"
    /\ free' = [free EXCEPT !.pc = "wasl",
                            !.processed_text = handle_tanween_shaddeh(@, FALSE)]
    /\ UNCHANGED <<seg, esh, verse, rhyme, taf, wiz, txt>>

\* line 1343
FreeHamzatWasl ==
    /\ free.pc = "wasl"
    /\ free' = [free EXCEPT !.pc = "extract",
                            !.processed_text = handle_hamzat_wasl(@)]
    /\ UNCHANGED <<seg, esh, verse, rhyme, taf, wiz, txt>>

\* lines 1346-1354
FreeExtract ==
    /\ free.pc = "extract"
    /\ LET arrodi_written == Without(free.processed_text, {"#", " "})
           harakat == get_harakat_only(arrodi_written)
           rokaz == get_rokaz_khoutayt(harakat)
       IN  free' = [free EXCEPT !.pc = "meter",
                                !.processed_text = arrodi_written,
                                !.arrodi_written = arrodi_written,
                                !.chars = get_chars_only(arrodi_written),
                                !.harakat = harakat,
                                !.rokaz = rokaz,
                                !.ba7er_name = what_tafeela_poem_on(rokaz)]
    /\ UNCHANGED <<seg, esh, verse, rhyme, taf, wiz, txt>>

\* lines 1356-1361
FreeReturn ==
    /\ free.pc = "meter"
    /\ free' = [free EXCEPT
                   !.pc = "returned",
                   !.result = IF free.ba7er_name = "unknown" THEN PoemErr
                              ELSE get_tafaeel_for_tafeela_poem(
                                       free.ba7er_name, free.rokaz, free.chars)]
    /\ UNCHANGED <<seg, esh, verse, rhyme, taf, wiz, txt>>

NextFree ==
    \/ FenceText
    \/ FreeSpecialCases
    \/ FreeLunarSolarLam
    \/ FreeTanweenShaddeh
    \/ FreeHamzatWasl
    \/ FreeExtract
    \/ FreeReturn

SpecFree == InitFree /\ [][NextFree]_vars

(***************************************************************************)
(* wizard_analysis_classical and wizard_analysis_free_verse called on the  *)
(* texts of WizardTexts.  The classical wizard is given up to MaxGroups    *)
(* groups of WizardGroups, the free-verse wizard the alternatives of one.  *)
(* Every group has an alternative and a name for each alternative.         *)
(***************************************************************************)
MaxGroups == 3

WizardTexts ==
    {qifa_nabki,
     <<"l", "a", "h", "u", " ", "b", "i", "h", "i">>,
     <<"b", "a">>}

\* fa3oolun or fa3oolu; mafaa3eelun or mafaa3ilun; a foot that may be absent.
WizardGroups ==
    {[patterns |-> <<<<"U", "-", "-">>, <<"U", "-", "U">>>>, names |-> <<fa3oolun, fa3oolu>>],
     [patterns |-> <<<<"U", "-", "-", "-">>, <<"U", "-", "U", "-">>>>, names |-> <<mafa3eelun, mafa3ilun>>],
     [patterns |-> <<<<>>, <<"-", "-">>>>, names |-> <<fa3ilun, fa3lun>>]}

WizardRules == UNION {[1..n -> WizardGroups] : n \in 0..MaxGroups}

InitWizard ==
    /\ wiz \in {[pc |-> "special", mode |-> "classical", text |-> x, is_ajez |-> aj,
                 rule_patterns |-> [k \in 1..Len(rules) |-> rules[k].patterns],
                 rule_names |-> [k \in 1..Len(rules) |-> rules[k].names],
                 processed_text |-> <<>>, chars |-> <<>>, rokaz |-> <<>>,
                 results |-> <<>>, i |-> 0] :
                   x \in WizardTexts, aj \in BOOLEAN, rules \in WizardRules}
               \cup
               {[pc |-> "special", mode |-> "free", text |-> x, is_ajez |-> FALSE,
                 rule_patterns |-> group.patterns, rule_names |-> group.names,
                 processed_text |-> <<>>, chars |-> <<>>, rokaz |-> <<>>,
                 results |-> <<>>, i |-> 0] :
                   x \in WizardTexts, group \in WizardGroups}
    /\ seg = Idle
    /\ esh = Idle
    /\ verse = Idle
    /\ rhyme = Idle
    /\ taf = Idle
    /\ free = Idle
    /\ txt = Idle

\* lines 1447 and 1540
WizardSpecialCases ==
    /\ wiz.pc = "special"
    /\ wiz' = [wiz EXCEPT !.pc = "lunar",
                          !.processed_text = handle_special_cases(wiz.text)]
    /\ UNCHANGED <<seg, esh, verse, rhyme, taf, free, txt>>

\* lines 1448 and 1541
WizardLunarSolarLam ==
    /\ wiz.pc = "lunar"
    /\ wiz' = [wiz EXCEPT !.pc = "tanween",
                          !.processed_text = handle_lunar_solar_lam(@)]
    /\ UNCHANGED <<seg, esh, verse, rhyme, taf, free, txt>>

\* lines 1449 and 1542: the free-verse wizard passes False for is_ajez.
WizardTanweenShaddeh ==
    /\ wiz.pc = "tanween"
    /\ wiz' = [wiz EXCEPT !.pc = "wasl",
                          !.processed_text = handle_tanween_shaddeh(@, wiz.is_ajez)]
    /\ UNCHANGED <<seg, esh, verse, rhyme, taf, free, txt>>

\* lines 1450 and 1543
WizardHamzatWasl ==
    /\ wiz.pc = "wasl"
    /\ wiz' = [wiz EXCEPT !.pc = "extract",
                          !.processed_text = handle_hamzat_wasl(@)]
    /\ UNCHANGED <<seg, esh, verse, rhyme, taf, free, txt>>

\* lines 1452-1459 and 1545-1554
WizardExtract ==
    /\ wiz.pc = "extract"
    /\ LET stripped == Without(wiz.processed_text, {"#", " "})
       IN  wiz' = [wiz EXCEPT !.pc = "walk",
                              !.processed_text = stripped,
                              !.chars = get_chars_only(stripped),
                              !.rokaz = get_rokaz_khoutayt(get_harakat_only(stripped))]
    /\ UNCHANGED <<seg, esh, verse, rhyme, taf, free, txt>>

\* lines 1461-1521
ClassicalWalk ==
    /\ wiz.pc = "walk"
    /\ wiz.mode = "classical"
    /\ wiz.i < Len(wiz.rule_patterns)
    /\ wiz' = ClassicalGroup(wiz)
    /\ UNCHANGED <<seg, esh, verse, rhyme, taf, free, txt>>

\* line 1523, after the last group
ClassicalReturn ==
    /\ wiz.pc = "walk"
    /\ wiz.mode = "classical"
    /\ wiz.i >= Len(wiz.rule_patterns)
    /\ wiz' = [wiz EXCEPT !.pc = "returned"]
    /\ UNCHANGED <<seg, esh, verse, rhyme, taf, free, txt>>

\* lines 1556-1618: the test of the while loop, and a pass of the loop or the
\* return.
FreeWalk ==
    /\ wiz.pc = "walk"
    /\ wiz.mode = "free"
    /\ wiz' = IF wiz.rokaz # <<>> THEN FreeFoot(wiz)
              ELSE [wiz EXCEPT !.pc = "returned"]
    /\ UNCHANGED <<seg, esh, verse, rhyme, taf, free, txt>>

NextWizard ==
    \/ WizardSpecialCases
    \/ WizardLunarSolarLam
    \/ WizardTanweenShaddeh
    \/ WizardHamzatWasl
    \/ WizardExtract
    \/ ClassicalWalk
    \/ ClassicalReturn
    \/ FreeWalk

SpecWizard == InitWizard /\ [][NextWizard]_vars

(***************************************************************************)
(* The text functions called on a str: _str_to_chars, _clean_str and       *)
(* _handle_tanween_shaddeh on every text of up to MaxSymbols symbols of    *)
(* TextSymbols, _get_chars_only on those of them that hold letters and     *)
(* marks only, and _get_rokaz_khoutayt on every string of up to MaxHarakat *)
(* fathas and sukuns.                                                      *)
(***************************************************************************)
MaxSymbols == 3

MaxHarakat == 5

TextSymbols == {"b", "A", "a", "i", "o", "~", "F", "#", " ", "?"}

Texts == UNION {[1..n -> TextSymbols] : n \in 0..MaxSymbols}

ProsodicTexts ==
    {x \in Texts : \A k \in 1..Len(x) : x[k] \in (ALPHABET \cup HARAKAT) \ {"#"}}

HarakatStrings == UNION {[1..n -> {"a", "o"}] : n \in 0..MaxHarakat}

InitText ==
    /\ txt \in {[pc |-> "called", fn |-> f, text |-> x, is_ajez |-> FALSE,
                 result |-> <<>>] :
                   f \in {"str_to_chars", "clean_str", "handle_tanween_shaddeh"},
                   x \in Texts}
               \cup
               {[pc |-> "called", fn |-> "handle_tanween_shaddeh", text |-> x,
                 is_ajez |-> TRUE, result |-> <<>>] : x \in Texts}
               \cup
               {[pc |-> "called", fn |-> "get_chars_only", text |-> x,
                 is_ajez |-> FALSE, result |-> <<>>] : x \in ProsodicTexts}
               \cup
               {[pc |-> "called", fn |-> "get_rokaz_khoutayt", text |-> x,
                 is_ajez |-> FALSE, result |-> <<>>] : x \in HarakatStrings}
    /\ seg = Idle
    /\ esh = Idle
    /\ verse = Idle
    /\ rhyme = Idle
    /\ taf = Idle
    /\ free = Idle
    /\ wiz = Idle

\* lines 103-119
StrToChars ==
    /\ txt.pc = "called"
    /\ txt.fn = "str_to_chars"
    /\ txt' = [txt EXCEPT !.pc = "returned", !.result = str_to_chars(txt.text)]
    /\ UNCHANGED <<seg, esh, verse, rhyme, taf, free, wiz>>

\* lines 121-145
CleanStr ==
    /\ txt.pc = "called"
    /\ txt.fn = "clean_str"
    /\ txt' = [txt EXCEPT !.pc = "returned", !.result = clean_str(txt.text)]
    /\ UNCHANGED <<seg, esh, verse, rhyme, taf, free, wiz>>

\* lines 480-541
HandleTanweenShaddeh ==
    /\ txt.pc = "called"
    /\ txt.fn = "handle_tanween_shaddeh"
    /\ txt' = [txt EXCEPT !.pc = "returned",
                          !.result = handle_tanween_shaddeh(txt.text, txt.is_ajez)]
    /\ UNCHANGED <<seg, esh, verse, rhyme, taf, free, wiz>>

\* lines 626-633
GetCharsOnly ==
    /\ txt.pc = "called"
    /\ txt.fn = "get_chars_only"
    /\ txt' = [txt EXCEPT !.pc = "returned", !.result = get_chars_only(txt.text)]
    /\ UNCHANGED <<seg, esh, verse, rhyme, taf, free, wiz>>

\* lines 660-665
GetRokazKhoutayt ==
    /\ txt.pc = "called"
    /\ txt.fn = "get_rokaz_khoutayt"
    /\ txt' = [txt EXCEPT !.pc = "returned", !.result = get_rokaz_khoutayt(txt.text)]
    /\ UNCHANGED <<seg, esh, verse, rhyme, taf, free, wiz>>

NextText ==
    \/ StrToChars
    \/ CleanStr
    \/ HandleTanweenShaddeh
    \/ GetCharsOnly
    \/ GetRokazKhoutayt

SpecText == InitText /\ [][NextText]_vars

(***************************************************************************)
(* Claims about the meter matcher and the foot segmenter.                  *)
(***************************************************************************)
\* The strings a list of groups generates: one alternative of each group,
\* concatenated.
RECURSIVE Generated(_)
Generated(groups) ==
    IF groups = <<>> THEN {<<>>}
    ELSE {alt \o rest : alt \in Head(groups), rest \in Generated(Tail(groups))}

\* The skeletons the k-th meter's pattern describes, anchors left out.
MeterLanguage(k) ==
    Generated(SubSeq(METER_PATTERNS[k].pattern, 2, Len(METER_PATTERNS[k].pattern) - 1))

MeterIndex(name) == CHOOSE k \in 1..Len(METER_PATTERNS) : METER_PATTERNS[k].name = name

MetersOf(rokaz) == {k \in 1..Len(METER_PATTERNS) : rokaz \in MeterLanguage(k)}

Matched == seg.pc \in {"matched", "segmented"}

\* C4: a meter returned by _get_ba7er describes the whole skeleton, from its
\* first symbol to its last.
C4_MeterMatchesWholeSkeleton ==
    (Matched /\ seg.ba7er_name # "unknown")
        => seg.rokaz \in MeterLanguage(MeterIndex(seg.ba7er_name))

C4_Witness ==
    /\ seg.pc = "matched"
    /\ seg.ba7er_name = "kamel"
    /\ Len(seg.rokaz) = 14

\* C5: _get_ba7er returns the first meter, in declaration order, whose
\* pattern describes the skeleton, and 'unknown' exactly when none does;
\* U---U---, described by hazaj and by majzoo2Wafer, is reported as hazaj.
C5_FirstDeclaredMeterWins ==
    Matched =>
        /\ seg.ba7er_name =
               IF MetersOf(seg.rokaz) = {} THEN "unknown"
               ELSE METER_PATTERNS[CHOOSE k \in MetersOf(seg.rokaz) :
                                       \A j \in MetersOf(seg.rokaz) : k <= j].name
        /\ seg.rokaz = <<"U", "-", "-", "-", "U", "-", "-", "-">>
               => seg.ba7er_name = "hazaj"

C5_Witness ==
    /\ seg.pc = "matched"
    /\ seg.rokaz = <<"U", "-", "-", "-", "U", "-", "-", "-">>
    /\ {MeterIndex("hazaj"), MeterIndex("majzoo2Wafer")} \subseteq MetersOf(seg.rokaz)
    /\ seg.ba7er_name = "hazaj"

\* The lengths of the letter spans of a list of feet (its entries 2, 4, ...).
RECURSIVE SpanSum(_)
SpanSum(feet) ==
    IF Len(feet) < 2 THEN 0 ELSE Len(feet[2]) + SpanSum(SubSeq(feet, 3, Len(feet)))

\* C6 as stated: for every meter the matcher returns, the letter spans
\* _get_tafa3eel emits sum to len(chars).
C6_SpansCoverChars ==
    seg.pc = "segmented" => SpanSum(seg.tafa3eel) = Len(seg.chars)

\* C6 amended: the spans sum to len(chars) for taweel and baseet; for every
\* other meter _get_tafa3eel emits no foot.
C6_SpansCoverCharsTaweelBaseet ==
    seg.pc = "segmented" =>
        IF seg.ba7er_name \in {"taweel", "baseet"}
        THEN SpanSum(seg.tafa3eel) = Len(seg.chars)
        ELSE seg.tafa3eel = <<>>

C6_Witness ==
    /\ seg.pc = "segmented"
    /\ seg.ba7er_name = "baseet"
    /\ Len(seg.tafa3eel) = 8
    /\ Len(seg.chars) = 23
    /\ SpanSum(seg.tafa3eel) = 23

(***************************************************************************)
(* Claims about the ishbaa3 search.                                        *)
(***************************************************************************)
RECURSIVE Pow2(_)
Pow2(k) == IF k = 0 THEN 1 ELSE 2 * Pow2(k - 1)

\* C7: with k >= 1 pronoun positions, the truth table has exactly 2^k rows,
\* pairwise distinct, of exactly k bits each, and _do_eshbaa3_shater applies
\* every row bit by bit to the k positions (it does not fail on a row).
C7_TruthTableEnumeratesSubsets ==
    (esh.pc \notin {"idle", "start", "split"} /\ Len(esh.positions) >= 1) =>
        LET k == Len(esh.positions)
            table == esh.truth_table
        IN  /\ Len(table) = Pow2(k)
            /\ \A i \in 1..Len(table) : Len(table[i]) = k
            /\ \A i, j \in 1..Len(table) : i # j => table[i] # table[j]
            /\ esh.pc # "IndexError"

(***************************************************************************)
(* Claims about analyze_classical_verse and the four normaliser passes.    *)
(***************************************************************************)
RECURSIVE FootNames(_)
FootNames(tafa3eel) ==
    IF Len(tafa3eel) < 2 THEN <<>>
    ELSE <<tafa3eel[1]>> \o FootNames(SubSeq(tafa3eel, 3, Len(tafa3eel)))

\* C1: for the verse qifaa nabki ..., is_ajez false, analyze_classical_verse
\* returns ba7er_name 'taweel' and four feet named fa3oolun, mafaa3eelun,
\* fa3oolun, mafaa3ilun.
C1_QifaNabkiIsTaweel ==
    (/\ verse.pc \in {"returned", "IndexError"}
     /\ verse.text = qifa_nabki
     /\ ~verse.is_ajez)
        => /\ verse.pc = "returned"
           /\ verse.ba7er_name = "taweel"
           /\ FootNames(verse.tafa3eel) = <<fa3oolun, mafa3eelun, fa3oolun, mafa3ilun>>

Normalised == verse.pc = "extract"

RECURSIVE HasPair(_, _)
HasPair(s, c) ==
    /\ Len(s) >= 2
    /\ \/ (s[1] = c /\ s[2] = c)
       \/ HasPair(Tail(s), c)

\* C2: for every text and both values of is_ajez, the text the four passes
\* produce begins with '#', ends with '#' and has no two consecutive '#'.
C2_NormalisedIsFenced ==
    (Normalised /\ verse.round = 1) =>
        /\ verse.old_text # <<>>
        /\ Head(verse.old_text) = "#"
        /\ verse.old_text[Len(verse.old_text)] = "#"
        /\ ~HasPair(verse.old_text, "#")

\* C3: with is_ajez false, the four passes applied to a text they produced
\* give that text again.
C3_NormaliserIdempotent ==
    (Normalised /\ verse.round = 2 /\ ~verse.is_ajez) => verse.old_text = verse.first

(***************************************************************************)
(* Claims about analyze_rhyme_patterns.                                    *)
(***************************************************************************)
\* C8: analyze_rhyme_patterns never raises; it returns 'emptyAll' or the
\* list of results.
C8_RhymeNeverRaises == rhyme.pc # "IndexError"

\* The 1-based places of the results entered for verses after the baseline.
AfterBaseline ==
    IF rhyme.pc = "idle" \/ rhyme.beginning_index < 0 THEN {}
    ELSE (rhyme.beginning_index + 2)..Len(rhyme.results)

Baseline == rhyme.results[rhyme.beginning_index + 1]

\* C9: a later verse with the text of the baseline verse, once analysed, has
\* an empty errors list.
C9_BaselineAgainHasNoErrors ==
    \A j \in AfterBaseline :
        rhyme.verses[j] = rhyme.verses[rhyme.beginning_index + 1]
            => /\ rhyme.results[j].kind = "qafeeh"
               /\ rhyme.results[j].errors = <<>>

C9_Witness ==
    /\ rhyme.pc = "returned"
    /\ rhyme.verses = <<empty, <<"b", "A", "l">>, <<"b", "A", "l">>>>
    /\ rhyme.results[2].errors = None
    /\ rhyme.results[3].errors = <<>>

LetterFromEnd(text, n) ==
    LET places == {p \in 1..Len(text) :
                      /\ text[p] \notin HARAKAT
                      /\ Cardinality({k \in p..Len(text) : text[k] \notin HARAKAT}) = n}
    IN  IF places = {} THEN 0 ELSE CHOOSE p \in places : TRUE

\* The mark written after the letter at place p, "" when there is none.
MarkAfter(text, p) ==
    IF p > 0 /\ p < Len(text) /\ text[p + 1] \in HARAKAT THEN text[p + 1] ELSE ""

\* A verse of one word whose last letter is a consonant with sukun or with no
\* mark: its rhyme is bound and its rawee is that letter.
BoundVerse(text) ==
    /\ text # empty
    /\ \A k \in 1..Len(text) : text[k] \notin {" ", "#"}
    /\ LetterFromEnd(text, 1) > 0
    /\ text[LetterFromEnd(text, 1)] \notin {"A", "Y", "w", "y"}
    /\ MarkAfter(text, LetterFromEnd(text, 1)) \in {"", "o"}

\* The letter before the rawee of a bound verse is a redf: alef or alef
\* maqsura after fatha, waw with sukun after damma, yaa with sukun after kasra.
VerseHasRedf(text) ==
    /\ BoundVerse(text)
    /\ LetterFromEnd(text, 3) > 0
    /\ LET c == text[LetterFromEnd(text, 2)]
           ch == MarkAfter(text, LetterFromEnd(text, 2))
           cbh == MarkAfter(text, LetterFromEnd(text, 3))
       IN  \/ c \in {"A", "Y"} /\ cbh = "a"
           \/ c = "w" /\ ch = "o" /\ cbh = "u"
           \/ c = "y" /\ ch = "o" /\ cbh = "i"

\* The letter two before the rawee of a bound verse is alef or alef maqsura
\* of the same word, and the letter between them is no redf.
VerseHasTa2sees(text) ==
    /\ BoundVerse(text)
    /\ ~VerseHasRedf(text)
    /\ LetterFromEnd(text, 3) > 0
    /\ text[LetterFromEnd(text, 3)] \in {"A", "Y"}

Reports(errors, message) == \E k \in 1..Len(errors) : errors[k] = message

\* C11: an analysed verse after the baseline that has a ta2sees where the
\* baseline verse has none is given the sinad al-ta2sees message, one that has
\* a redf where the baseline has none the sinad al-redf message, and one that
\* lacks the ta2sees or the redf of the baseline the demand for it.
C11_SinadAndDemandsReported ==
    \A j \in AfterBaseline :
        LET cur == rhyme.verses[j]
            base == rhyme.verses[rhyme.beginning_index + 1]
            errors == rhyme.results[j].errors
        IN  (rhyme.results[j].kind = "qafeeh" /\ BoundVerse(cur) /\ BoundVerse(base)) =>
                /\ (VerseHasTa2sees(cur) /\ ~VerseHasTa2sees(base))
                       => Reports(errors, sinad_ta2sees)
                /\ (~VerseHasTa2sees(cur) /\ VerseHasTa2sees(base))
                       => Reports(errors, needs_ta2sees)
                /\ (VerseHasRedf(cur) /\ ~VerseHasRedf(base))
                       => Reports(errors, sinad_redf)
                /\ (~VerseHasRedf(cur) /\ VerseHasRedf(base))
                       => Reports(errors, needs_redf)

\* Every entry of verses is the marker 'empty'; so it is for the empty list.
AllEmpty == \A k \in 1..Len(rhyme.verses) : rhyme.verses[k] = empty

\* The call ends with the marker 'emptyAll' exactly when every entry is 'empty'.
EmptyAllIffAllEmpty ==
    rhyme.pc # "idle" =>
        /\ rhyme.pc = "emptyAll" => AllEmpty
        /\ AllEmpty => rhyme.pc \in {"start", "emptyAll"}

\* C12: analyze_rhyme_patterns returns 'emptyAll' exactly when every entry of
\* verses is 'empty'; with any other list it goes on to return a list of
\* results: it returns no marker and it does not raise.
C12_EmptyAllOrAList ==
    /\ EmptyAllIffAllEmpty
    /\ (rhyme.pc # "idle" /\ ~AllEmpty) => rhyme.pc # "IndexError"

(***************************************************************************)
(* Claims about the free-verse engine.                                     *)
(***************************************************************************)
\* The canonical feet of a meter: those the claim lists for kamel and rajaz.
CanonicalFeet(ba7er_name) ==
    IF ba7er_name = "kamel" THEN {mutafa3ilun, mustaf3ilun}
    ELSE IF ba7er_name = "rajaz" THEN {mustaf3ilun, mutaf3ilun, musta3ilun, muta3ilun}
    ELSE {}

\* C13: every foot name _get_tafaeel_for_tafeela_poem emits for a meter name
\* and a skeleton is a canonical foot of that meter or the placeholder ????.
C13_FeetCanonicalOrPlaceholder ==
    (taf.pc = "segmented" /\ taf.result.kind = "feet") =>
        \A k \in 1..Len(taf.result.names) :
            taf.result.names[k] \in CanonicalFeet(taf.ba7er_name) \cup {unnamed_foot}

C13_Witness ==
    /\ taf.pc = "segmented"
    /\ taf.ba7er_name = "kamel"
    /\ taf.rokaz = <<"U", "U", "-", "U", "-", "-", "-", "U", "-", "U">>
    /\ taf.result.kind = "feet"
    /\ taf.result.names = <<mutafa3ilun, mustaf3ilun, unnamed_foot>>

\* The regex that scores wafer for a skeleton: line 861 for the opening
\* U---, lines 847 and 857 for U-UU and U--U.
WaferPattern(rokaz) ==
    IF Slice(rokaz, 0, 4) = <<"U", "-", "-", "-">> THEN wafer_foot ELSE wafer_feet

\* The matches that score wafer in the first 21 symbols have a foot U-UU-.
HasWaferFoot(rokaz) ==
    LET feet == re_findall_every_foot(WaferPattern(rokaz), Slice(rokaz, 0, 21))
    IN  \E k \in 1..Len(feet) : feet[k] = <<"U", "-", "U", "U", "-">>

\* C14: when wafer is the winning candidate, _what_tafeela_poem_on returns
\* 'wafer' if the matches it scored have a foot U-UU-, and 'hazaj' if they
\* have none.
C14_WaferIffWaferFoot ==
    (taf.pc = "named" /\ taf.ba7er_name \in {"wafer", "hazaj"}) =>
        (taf.ba7er_name = "wafer" <=> HasWaferFoot(taf.rokaz))

(***************************************************************************)
(* Claims about analyze_classical_verse.                                   *)
(***************************************************************************)
\* The search of _do_eshbaa3_shater on the normalised text of the call.
Eshbaa3 == do_eshbaa3_shater(verse.old_text)

\* The normalised text without its word boundaries (lines 1282-1283).
Unlengthened == Without(verse.old_text, {"#", " "})

\* C16: when no meter matches and the ishbaa3 search returns 'unknownAlso',
\* analyze_classical_verse returns ba7er_name 'unknown', no feet, and the
\* arrodi, chars, harakat and rokaz of the text that was not lengthened.
C16_UnknownAlsoGivesUnknown ==
    (/\ verse.pc = "returned"
     /\ get_ba7er(get_rokaz_khoutayt(get_harakat_only(Unlengthened))) = "unknown"
     /\ Eshbaa3.outcome = "unknownAlso") =>
        /\ verse.ba7er_name = "unknown"
        /\ verse.tafa3eel = <<>>
        /\ verse.arrodi = Unlengthened
        /\ verse.chars = get_chars_only(Unlengthened)
        /\ verse.harakat = get_harakat_only(Unlengthened)
        /\ verse.rokaz = get_rokaz_khoutayt(verse.harakat)

C16_Witness ==
    /\ verse.pc = "returned"
    /\ verse.text = qifa_nabki
    /\ Eshbaa3.outcome = "unknownAlso"
    /\ verse.ba7er_name = "unknown"
    /\ verse.tafa3eel = <<>>
    /\ verse.arrodi = <<"I", "i", "Y">>
    /\ verse.chars = <<"Y">>

Returned == verse.pc = "returned"

HasSentinel(text) == \E k \in 1..Len(text) : text[k] = "#"

OneSymbolWords(text) ==
    \A k \in 1..(Len(text) - 1) : text[k] = "#" \/ text[k + 1] = "#"

ErrReports(results) == {k \in 1..Len(results) : results[k].status = "err"}

Letters == ALPHABET \ {"#"}

Called(fn) == txt # Idle /\ txt.pc = "returned" /\ txt.fn = fn

\* C21: every unit _str_to_chars returns is '#', a single symbol, or one
\* letter followed by one diacritic; no unit joins two letters or two
\* diacritics.
C21_UnitsAreGraphemes ==
    Called("str_to_chars") =>
        \A k \in 1..Len(txt.result) :
            \/ Len(txt.result[k]) = 1
            \/ /\ Len(txt.result[k]) = 2
               /\ txt.result[k][1] \in Letters
               /\ txt.result[k][2] \in HARAKAT

\* C22: the output of _clean_str, its '#' removed, is the input's
\* subsequence of letters and diacritics.
C22_CleanKeepsInventory ==
    Called("clean_str") =>
        Without(txt.result, {"#"})
            = SelectSeq(txt.text, LAMBDA c : c \in Letters \cup HARAKAT)

\* C23: for a string of letters and diacritics, _get_chars_only returns its
\* letters, all of them and in order.
C23_CharsAreTheLetters ==
    Called("get_chars_only") =>
        txt.result = SelectSeq(txt.text, LAMBDA c : c \in Letters)

\* The skeleton of a harakat string: a fatha and the sukun after it give one
\* '-', any other fatha 'U', any other sukun '-'.
RECURSIVE SkeletonOf(_)
SkeletonOf(harakat) ==
    IF harakat = <<>> THEN <<>>
    ELSE IF Len(harakat) > 1 /\ harakat[1] = "a" /\ harakat[2] = "o"
         THEN <<"-">> \o SkeletonOf(SubSeq(harakat, 3, Len(harakat)))
         ELSE <<IF harakat[1] = "a" THEN "U" ELSE "-">> \o SkeletonOf(Tail(harakat))

\* C24: _get_rokaz_khoutayt maps a fatha and the sukun that follows it to one
\* '-', every other fatha to 'U' and every other sukun to '-'.
C24_RokazOfHarakat ==
    Called("get_rokaz_khoutayt") => txt.result = SkeletonOf(txt.text)

\* part is a run of consecutive symbols of text.
Holds(text, part) ==
    \E j \in 0..(Len(text) - Len(part)) : SubSeq(text, j + 1, j + Len(part)) = part

\* C25: for each shadda of the text that follows a letter X, the output of
\* _handle_tanween_shaddeh holds X, a sukun and X again.
C25_ShaddehDoublesLetter ==
    Called("handle_tanween_shaddeh") =>
        \A k \in 1..(Len(txt.text) - 1) :
            (txt.text[k] \in Letters /\ txt.text[k + 1] = "~") =>
                Holds(txt.result, <<txt.text[k], "o", txt.text[k]>>)

\* text ends with the symbols of tail.
EndsWith(text, tail) ==
    Len(text) >= Len(tail) /\ SubSeq(text, Len(text) - Len(tail) + 1, Len(text)) = tail

\* C26: with is_ajez true, _handle_tanween_shaddeh appends, after the last
\* symbol of the verse, alef and sukun when it is a fatha, yaa and sukun when
\* it is a kasra, waw and sukun when it is a damma or a bare letter, and
\* nothing when it is a sukun or a tanween: the output is then the output for
\* is_ajez false.
C26_AjezLengthensFinalVowel ==
    (Called("handle_tanween_shaddeh") /\ txt.is_ajez /\ txt.text # <<>>) =>
        LET last == txt.text[Len(txt.text)]
            said == Without(txt.result, {"#"})
        IN  /\ last = "a" => EndsWith(said, <<"a", "A", "o">>)
            /\ last = "i" => EndsWith(said, <<"i", "y", "o">>)
            /\ last \in {"u"} \cup (Letters \ {"A", "Y"}) => EndsWith(said, <<last, "w", "o">>)
            /\ last \in {"o", "F", "N", "K"} =>
                   txt.result = handle_tanween_shaddeh(txt.text, FALSE)

(***************************************************************************)
(* Claims about the feet of taweel.                                        *)
(***************************************************************************)
\* The name the claim gives a foot of taweel by its shape.
TaweelFootName(foot) ==
    CASE foot = <<"U", "-", "-">> -> fa3oolun
      [] foot = <<"U", "-", "U">> -> fa3oolu
      [] foot = <<"U", "-", "-", "-">> -> mafa3eelun
      [] foot = <<"U", "-", "U", "-">> -> mafa3ilun
      [] OTHER -> <<>>

\* C27: for a skeleton of taweel, _get_tafa3eel emits four feet: the first
\* and the third named by their shape (U-- fa3oolun, U-U fa3oolu), the
\* second, U---, always mafaa3eelun, the last named by its shape (U---
\* mafaa3eelun, U-U- mafaa3ilun, U-- fa3oolun).
C27_TaweelHasFourNamedFeet ==
    (seg # Idle /\ seg.pc = "segmented" /\ seg.ba7er_name = "taweel") =>
        /\ Len(seg.tafa3eel) = 8
        /\ SubSeq(seg.rokaz, 4, 7) = <<"U", "-", "-", "-">>
        /\ SubSeq(seg.rokaz, 11, Len(seg.rokaz))
               \in {<<"U", "-", "-", "-">>, <<"U", "-", "U", "-">>, <<"U", "-", "-">>}
        /\ FootNames(seg.tafa3eel)
               = <<TaweelFootName(SubSeq(seg.rokaz, 1, 3)),
                   mafa3eelun,
                   TaweelFootName(SubSeq(seg.rokaz, 8, 10)),
                   TaweelFootName(SubSeq(seg.rokaz, 11, Len(seg.rokaz)))>>

\* The skeleton U-U U--- U-- U-U- is segmented as fa3oolu, mafaa3eelun,
\* fa3oolun, mafaa3ilun.
C27_Witness ==
    /\ seg # Idle
    /\ seg.pc = "segmented"
    /\ seg.ba7er_name = "taweel"
    /\ seg.rokaz = <<"U", "-", "U", "U", "-", "-", "-", "U", "-", "-", "U", "-", "U", "-">>
    /\ FootNames(seg.tafa3eel) = <<fa3oolu, mafa3eelun, fa3oolun, mafa3ilun>>

(***************************************************************************)
(* Claims about the loops of _get_tafaeel_for_tafeela_poem.                *)
(***************************************************************************)
\* The feet emitted so far and what is left of the skeleton make up the
\* skeleton of the call.
FeetCoverSkeleton ==
    taf.pc \in {"loop", "segmented"} =>
        Join(taf.result_tafa3eel) \o taf.rokaz = taf.arg_rokaz

\* A pass of the loop emits one foot and takes its symbols, at least one,
\* off the skeleton; a placeholder foot is one symbol.
PassConsumes ==
    (taf.pc = "loop" /\ taf'.pc = "loop") =>
        LET emitted == taf'.result_tafa3eel[Len(taf'.result_tafa3eel)]
        IN  /\ Len(taf'.result_tafa3eel) = Len(taf.result_tafa3eel) + 1
            /\ Len(emitted) >= 1
            /\ Len(taf'.rokaz) = Len(taf.rokaz) - Len(emitted)
            /\ taf'.result_names[Len(taf'.result_names)] = unnamed_foot
                   => Len(emitted) = 1

\* C28: for kamel and rajaz and every skeleton over {U,-}, the loop of
\* _get_tafaeel_for_tafeela_poem terminates, every pass consumes at least
\* one symbol (a '????' placeholder exactly one), and the emitted foot
\* patterns, concatenated, are the input skeleton.
C28_LoopTerminatesAndCovers ==
    /\ []FeetCoverSkeleton
    /\ [][PassConsumes]_vars
    /\ <>(taf.pc = "segmented" /\ Join(taf.result.tafa3eel) = taf.arg_rokaz)

\* The rajaz loop returned for --U-U: the foot --U- and a placeholder for
\* the U left over.
C28_Witness ==
    /\ taf # Idle
    /\ taf.pc = "segmented"
    /\ taf.ba7er_name = "rajaz"
    /\ taf.arg_rokaz = <<"-", "-", "U", "-", "U">>
    /\ taf.result.tafa3eel = <<<<"-", "-", "U", "-">>, <<"U">>>>
    /\ taf.result.names = <<mustaf3ilun, unnamed_foot>>

(***************************************************************************)
(* Claims about the diagnostics of the wizard.                             *)
(***************************************************************************)
\* The alternatives of the foot group the k-th report of the call is about:
\* the classical wizard writes one report for each group it reads, the
\* free-verse wizard has one group.
GroupOfReport(k) ==
    IF wiz.mode = "classical" THEN wiz.rule_patterns[k] ELSE wiz.rule_patterns

\* C29: an 'err' report of the wizard carries exactly one diagnostic for
\* every alternative of the group that failed, so its list of diagnostics is
\* not empty.
C29_ErrReportHasDiagnostics ==
    wiz # Idle =>
        \A k \in ErrReports(wiz.results) :
            /\ Len(wiz.results[k].errs) = Len(GroupOfReport(k))
            /\ wiz.results[k].errs # <<>>

=========================================================================
